---- MODULE Spec2Model ----
(***************************************************************************)
(* Model of the INDI client of pludov/iphd: the connection (transport,     *)
(* device tree reducer, listener dispatch, wait primitive) of Indi.ts and  *)
(* the manager (lifecycle, status, notification log, command sequencer) of *)
(* IndiManager.ts.                                                         *)
(***************************************************************************)
EXTENDS Integers, Sequences, FiniteSets, TLC

VARIABLES
    globalRevisionId,   \* Indi.ts: var globalRevisionId
    deviceTree,         \* currentStatus.deviceTree, aliased by every connection
    status,             \* currentStatus.status
    conns,              \* the IndiConnection objects created so far
    connection,         \* IndiManager.connection (0 = undefined)
    nextTick,           \* process.nextTick queue: connection of each callback
    waits,              \* the Cancelables returned by IndiConnection.wait
    lifecycle,          \* position of IndiManager.lifecycle
    ops,                \* command sequencer calls in flight
    lastMessageStamp,   \* IndiManager.lastMessageStamp (-1 = undefined)
    lastMessageSerial,  \* IndiManager.lastMessageSerial (-1 = undefined)
    byUid,              \* currentStatus.messages.byUid: uid -> arrival number
    selector,           \* the state a preferred-device selector reads and sets
    hist                \* history (observations used by the properties only)

vars == <<globalRevisionId, deviceTree, status, conns, connection, nextTick,
          waits, lifecycle, ops, lastMessageStamp, lastMessageSerial, byUid,
          selector, hist>>

-----------------------------------------------------------------------------
(* Bounds of the model *)

\* revisions: every socket event and every message costs one
MaxRev == 5
\* IndiConnection objects created by the lifecycle loop
MaxConns == 2
\* wait() calls made by callers over a run
MaxUserWaits == 2
\* command sequencer calls over a run
MaxOps == 1
\* command sequencer calls over a run of concurrent calls
MaxCalls == 2
\* notifications logged over a run of the notification log
MaxAdds == 112
\* commands handed to one connection by callers of queueMessage
MaxQueued == 3

-----------------------------------------------------------------------------
(* Generic helpers *)

EmptyMap == [x \in {} |-> 0]

has(obj, key) == key \in DOMAIN obj

MapPut(f, k, v) == [x \in DOMAIN f \cup {k} |-> IF x = k THEN v ELSE f[x]]

MapDelAll(f, k) == EmptyMap

MapDel(f, k) == [x \in DOMAIN f \ {k} |-> f[x]]

Last(s) == s[Len(s)]

Front(s) == SubSeq(s, 1, Len(s) - 1)

Range(s) == {s[i] : i \in DOMAIN s}

\* Array.prototype.splice(i, 1)
Splice1(s, i) == SubSeq(s, 1, i - 1) \o SubSeq(s, i + 1, Len(s))

\* first index of x in s, 0 when absent
IndexOf(s, x) ==
    IF \E i \in DOMAIN s : s[i] = x
    THEN CHOOSE i \in DOMAIN s : s[i] = x /\ \A j \in 1..(i - 1) : s[j] # x
    ELSE 0

RemoveFirst(s, x) == IF IndexOf(s, x) = 0 THEN s ELSE Splice1(s, IndexOf(s, x))

-----------------------------------------------------------------------------
(* The state as one record: a handler is a function from world to world, so
   that a handler calling another one is a composition. *)

World ==
    [rev |-> globalRevisionId, tree |-> deviceTree, status |-> status,
     conns |-> conns, connection |-> connection, tick |-> nextTick,
     waits |-> waits, lifecycle |-> lifecycle, ops |-> ops,
     stamp |-> lastMessageStamp, serial |-> lastMessageSerial,
     byUid |-> byUid, sel |-> selector, hist |-> hist]

Commit(w) ==
    /\ globalRevisionId' = w.rev
    /\ deviceTree' = w.tree
    /\ status' = w.status
    /\ conns' = w.conns
    /\ connection' = w.connection
    /\ nextTick' = w.tick
    /\ waits' = w.waits
    /\ lifecycle' = w.lifecycle
    /\ ops' = w.ops
    /\ lastMessageStamp' = w.stamp
    /\ lastMessageSerial' = w.serial
    /\ byUid' = w.byUid
    /\ selector' = w.sel
    /\ hist' = w.hist

-----------------------------------------------------------------------------
(* Property model: Vector (Indi.ts) *)

\* Vector.exists: getVectorInTree() !== null
exists(tree, device, vectorId) ==
    IF ~has(tree, device) THEN FALSE
    ELSE IF ~has(tree[device], vectorId) THEN FALSE
    ELSE TRUE

\* Vector.getState; "throw" stands for the NotFound error of getExistingVectorInTree
getState(tree, device, vectorId) ==
    IF ~exists(tree, device, vectorId) THEN "throw"
    ELSE tree[device][vectorId].state

getRev(tree, device, vectorId) ==
    IF ~exists(tree, device, vectorId) THEN -1
    ELSE tree[device][vectorId].rev

\* Vector.getPropertyValue; "throw" when the vector or the child is missing
getPropertyValue(tree, device, vectorId, name) ==
    IF ~exists(tree, device, vectorId) THEN "throw"
    ELSE IF ~has(tree[device][vectorId].childs, name) THEN "throw"
    ELSE tree[device][vectorId].childs[name]

\* Vector.getPropertyValueIfExists; "null" when the vector or the child is missing
getPropertyValueIfExists(tree, device, vectorId, name) ==
    IF ~exists(tree, device, vectorId) THEN "null"
    ELSE IF ~has(tree[device][vectorId].childs, name) THEN "null"
    ELSE tree[device][vectorId].childs[name]

-----------------------------------------------------------------------------
(* Transport: queue and listener dispatch scheduling (Indi.ts) *)

\* what connection c was handed so far and did not drop: written, then queued
Outgoing(cs, c) == cs[c].written \o cs[c].queue

flushQueueUnconnected(w, c) ==
    [w EXCEPT !.conns[c].written = @ \o w.conns[c].queue,
              !.conns[c].queue = <<>>]

\* IndiConnection.flushQueue
flushQueue(w, c) ==
    IF ~w.conns[c].connected THEN w
    ELSE [w EXCEPT !.conns[c].written = @ \o w.conns[c].queue,
                   !.conns[c].queue = <<>>]

\* IndiConnection.queueMessage
queueMessage(w, c, msg) ==
    flushQueue([w EXCEPT !.conns[c].queue = Append(@, msg)], c)

\* IndiConnection.checkListeners: snapshot, and one nextTick callback unless
\* there is no listener
checkListeners(w, c) ==
    LET snap == [w EXCEPT !.conns[c].checkingListeners = w.conns[c].listeners]
    IN  IF Len(w.conns[c].listeners) = 0 THEN snap
        ELSE [snap EXCEPT !.tick = Append(@, c),
                          !.hist.owed = @ + 1]

\* IndiConnection.addListener
addListener(w, c, f) == [w EXCEPT !.conns[c].listeners = Append(@, f)]

\* IndiConnection.removeListener
removeListener(w, c, f) ==
    [w EXCEPT !.conns[c].listeners = RemoveFirst(@, f),
              !.conns[c].checkingListeners = RemoveFirst(@, f)]

setValuesKeepsState(w, c, device, vectorId, affectations) ==
    LET vecDef == w.tree[device][vectorId]
        msg == [device |-> device, name |-> vectorId, type |-> vecDef.type,
                items |-> affectations]
    IN  queueMessage(w, c, msg)

\* Vector.setValues: the command is queued and the vector marked Busy;
\* callers check existence first (getExistingVectorInTree throws otherwise)
setValues(w, c, device, vectorId, affectations) ==
    LET vecDef == w.tree[device][vectorId]
        msg == [device |-> device, name |-> vectorId, type |-> vecDef.type,
                items |-> affectations]
    IN  queueMessage([w EXCEPT !.tree[device][vectorId].state = "Busy"], c, msg)

-----------------------------------------------------------------------------
(* Notification log (IndiManager.ts). A string is the sequence of its
   character codes. *)

maxMessages == 100

\* Date.toISOString of a clock reading: fixed width, most significant digit
\* first, closed by "Z" (two digits stand for the date and time fields)
toISOString(now) == <<48 + (now \div 10), 48 + (now % 10), 90>>

HexDigit(d) == IF d < 10 THEN 48 + d ELSE 87 + d

RECURSIVE toString16(_)
\* Number.prototype.toString(16)
toString16(n) ==
    IF n < 16 THEN <<HexDigit(n)>>
    ELSE toString16(n \div 16) \o <<HexDigit(n % 16)>>

\* the text of a uid: ISO date, ":", one "Z" per hex digit after the first, hex
UidText(now, serial) ==
    LET serialStr == toString16(serial)
        prefix == [i \in 1..(Len(serialStr) - 1) |-> 90]
    IN  toISOString(now) \o <<58>> \o prefix \o serialStr

\* JavaScript string order (Array.prototype.sort, <): by code unit, a proper
\* prefix first
StrLess(a, b) ==
    \E i \in 1..(Len(a) + 1) :
        /\ i <= Len(b)
        /\ \A j \in 1..(i - 1) : a[j] = b[j]
        /\ (i = Len(a) + 1 \/ a[i] < b[i])

nextMessageUidGoesBackward(w, now) ==
    LET now2 == now
        serial == IF w.stamp # -1 /\ w.stamp = now2 THEN w.serial + 1 ELSE 0
    IN  [w |-> [w EXCEPT !.stamp = now2, !.serial = serial,
                         !.hist.now = now,
                         !.hist.prevUid = w.hist.lastUid,
                         !.hist.lastUid = UidText(now2, serial)],
         uid |-> UidText(now2, serial)]

\* IndiManager.nextMessageUid reading the clock as now: the stamp and the
\* serial it stores, and the uid it returns
nextMessageUid(w, now) ==
    LET now2 == IF w.stamp # -1 /\ w.stamp > now THEN w.stamp ELSE now
        serial == IF w.stamp # -1 /\ w.stamp = now2 THEN w.serial + 1 ELSE 0
    IN  [w |-> [w EXCEPT !.stamp = now2, !.serial = serial,
                         !.hist.now = now,
                         !.hist.prevUid = w.hist.lastUid,
                         !.hist.lastUid = UidText(now2, serial)],
         uid |-> UidText(now2, serial)]

RECURSIVE DeleteSmallest(_, _)
\* delete the n first keys of the sorted key list
DeleteSmallest(log, n) ==
    IF n <= 0 THEN log
    ELSE LET k == CHOOSE k \in DOMAIN log :
                      \A j \in DOMAIN log : j = k \/ StrLess(k, j)
         IN  DeleteSmallest(MapDel(log, k), n - 1)

\* IndiManager.cleanupMessages
cleanupMessages(w) ==
    IF Cardinality(DOMAIN w.byUid) > maxMessages
    THEN [w EXCEPT !.byUid =
            DeleteSmallest(@, Cardinality(DOMAIN w.byUid) - maxMessages)]
    ELSE w

\* IndiManager.addMessage; the record stored is the message (here its arrival
\* number) with its uid
addMessage(w, now) ==
    LET r == nextMessageUid(w, now)
        n == r.w.hist.added + 1
    IN  cleanupMessages([r.w EXCEPT !.byUid = MapPut(@, r.uid, n),
                                    !.hist.added = n])

-----------------------------------------------------------------------------
(* Device tree reducer (Indi.ts, IndiConnection.onMessage) *)

\* one message listener called with a note: the one the lifecycle registers
\* logs the note, a caller's listener returns or throws; delivered keeps
\* the calls made
messageListener(w, listener, now) ==
    LET w1 == [w EXCEPT !.hist.delivered = Append(@, listener)]
    IN  IF listener = "addMessage" THEN cleanupMessages(addMessage(w1, now))
        ELSE w1

RECURSIVE dispatchMessageStopsOnThrow(_, _, _, _)
dispatchMessageStopsOnThrow(w, c, i, now) ==
    IF i > Len(w.conns[c].messageListeners) THEN w
    ELSE IF w.conns[c].messageListeners[i] = "throws"
         THEN messageListener(w, w.conns[c].messageListeners[i], now)
    ELSE dispatchMessageStopsOnThrow(
            messageListener(w, w.conns[c].messageListeners[i], now), c, i + 1, now)

\* IndiConnection.dispatchMessage: the message listeners in registration
\* order, each inside a try block
RECURSIVE dispatchMessage(_, _, _, _)
dispatchMessage(w, c, i, now) ==
    IF i > Len(w.conns[c].messageListeners) THEN w
    ELSE dispatchMessage(messageListener(w, w.conns[c].messageListeners[i], now),
                         c, i + 1, now)

RECURSIVE DefChilds(_, _)
\* the def branch's loop: childs indexed by name, a later duplicate wins
DefChilds(children, i) ==
    IF i = 0 THEN EmptyMap
    ELSE MapPut(DefChilds(children, i - 1), children[i].name, children[i].value)

\* IndiConnection.getDeviceInTree: the device entry, created when missing
getDeviceInTree(tree, dev) == IF has(tree, dev) THEN tree ELSE MapPut(tree, dev, EmptyMap)

\* onMessage, def.*Vector branch
onDef(w, m) ==
    LET vec == [type |-> m.type, state |-> m.state,
                timeout |-> IF m.hasTimeout THEN m.timeout ELSE -1,
                timestamp |-> m.timestamp, message |-> m.message,
                rev |-> w.rev,
                childs |-> DefChilds(m.children, Len(m.children)),
                childNames |-> [i \in 1..Len(m.children) |-> m.children[i].name]]
        t == getDeviceInTree(w.tree, m.device)
    IN  [w EXCEPT !.tree = [t EXCEPT ![m.device] = MapPut(@, m.name, vec)],
                  !.hist.defs = @ + 1,
                  !.hist.latestDef = MapPut(@, <<m.device, m.name>>,
                                            {m.children[i].name : i \in 1..Len(m.children)})]

RECURSIVE SetChildsAddsUnknown(_, _, _)
SetChildsAddsUnknown(childs, updates, i) ==
    IF i = 0 THEN childs
    ELSE MapPut(SetChildsAddsUnknown(childs, updates, i - 1), updates[i].name,
                IF updates[i].hasValue THEN updates[i].value ELSE "")

RECURSIVE SetChilds(_, _, _)
\* the set branch's loop over the listed children
SetChilds(childs, updates, i) ==
    IF i = 0 THEN childs
    ELSE LET prev == SetChilds(childs, updates, i - 1)
             update == updates[i]
         IN  IF ~has(prev, update.name) THEN prev
             ELSE [prev EXCEPT ![update.name] =
                        IF update.hasValue THEN update.value ELSE ""]

\* onMessage, set.*Vector branch up to the loop: the fields of the vector
SetFieldsKeepsTimeout(w, m) ==
    [w EXCEPT !.tree[m.device][m.name] =
        [@ EXCEPT !.state = m.state,
                  !.timeout = IF m.hasTimeout THEN m.timeout ELSE @,
                  !.timestamp = m.timestamp,
                  !.rev = w.rev,
                  !.message = IF m.message # "undefined" THEN m.message ELSE @]]

SetFields(w, m) ==
    [w EXCEPT !.tree[m.device][m.name] =
        [@ EXCEPT !.state = m.state,
                  !.timeout = IF m.hasTimeout THEN m.timeout ELSE 0,
                  !.timestamp = m.timestamp,
                  !.rev = w.rev,
                  !.message = IF m.message # "undefined" THEN m.message ELSE @]]

bumpRevisionNot(w) == w

\* onMessage: globalRevisionId++
bumpRevision(w) == [w EXCEPT !.rev = @ + 1]

onMessageCreatesDevice(w0, c, m, now) ==
    LET w == bumpRevision(w0)
    IN  IF m.kind = "message"
        THEN dispatchMessage([w EXCEPT !.hist.delivered = <<>>], c, 1, now)
        ELSE IF m.kind = "def" THEN checkListeners(onDef(w, m), c)
        ELSE IF m.kind = "del" THEN
            IF ~has(w.tree, m.device) THEN w
            ELSE IF m.hasName THEN
                IF ~has(w.tree[m.device], m.name) THEN w
                ELSE checkListeners(
                        [w EXCEPT !.tree[m.device] = MapDel(@, m.name)], c)
            ELSE checkListeners([w EXCEPT !.tree = MapDel(@, m.device)], c)
        ELSE IF m.kind = "set" THEN
            IF ~has(w.tree, m.device)
            THEN [w EXCEPT !.tree = getDeviceInTree(@, m.device)]
            ELSE IF ~has(w.tree[m.device], m.name) THEN w
            ELSE IF ~m.hasChildren THEN SetFields(w, m)
            ELSE checkListeners(
                    [SetFields(w, m) EXCEPT !.tree[m.device][m.name].childs =
                        SetChilds(@, m.children, Len(m.children))], c)
        ELSE checkListeners(w, c)

\* IndiConnection.onMessage
onMessage(w0, c, m, now) ==
    LET w == bumpRevision(w0)
    IN  IF m.kind = "message"
        THEN dispatchMessage([w EXCEPT !.hist.delivered = <<>>], c, 1, now)
        ELSE IF m.kind = "def" THEN checkListeners(onDef(w, m), c)
        ELSE IF m.kind = "del" THEN
            IF ~has(w.tree, m.device) THEN w
            ELSE IF m.hasName THEN
                IF ~has(w.tree[m.device], m.name) THEN w
                ELSE checkListeners(
                        [w EXCEPT !.tree[m.device] = MapDel(@, m.name)], c)
            ELSE checkListeners([w EXCEPT !.tree = MapDel(@, m.device)], c)
        ELSE IF m.kind = "set" THEN
            IF ~has(w.tree, m.device) THEN w
            ELSE IF ~has(w.tree[m.device], m.name) THEN w
            ELSE IF ~m.hasChildren THEN SetFields(w, m)
            ELSE checkListeners(
                    [SetFields(w, m) EXCEPT !.tree[m.device][m.name].childs =
                        SetChilds(@, m.children, Len(m.children))], c)
        ELSE checkListeners(w, c)

RECURSIVE onData(_, _, _, _, _)
\* socket.on('data'): the parser calls onMessage once per element of the chunk
onData(w, c, chunk, i, now) ==
    IF i > Len(chunk) THEN w
    ELSE onData(onMessage(w, c, chunk[i], now), c, chunk, i + 1, now)

-----------------------------------------------------------------------------
(* Wait engine (Indi.ts, IndiConnection.wait) *)

\* The predicates handed to wait by the manager and by callers, evaluated on
\* the tree: "true", "false", or "throw" when the evaluation throws
\* getVec of setParam, activate and pulseParam: the not-connected check
getVecThrows(tree, device, vectorId) ==
    vectorId # "CONNECTION"
    /\ getPropertyValueIfExists(tree, device, "CONNECTION", "CONNECT") # "On"

Truth(b) == IF b THEN "true" ELSE "false"

Eval(w, c, pred) ==
    CASE pred.kind = "isDead" -> Truth(w.conns[c].dead)
      [] pred.kind = "exists" ->
            Truth(\A i \in 1..Len(pred.vectors) :
                      exists(w.tree, pred.device, pred.vectors[i]))
      [] pred.kind = "notBusy" ->
            IF getVecThrows(w.tree, pred.device, pred.vector) THEN "throw"
            ELSE IF getState(w.tree, pred.device, pred.vector) = "throw" THEN "throw"
            ELSE Truth(getState(w.tree, pred.device, pred.vector) # "Busy")
      [] pred.kind = "propOn" ->
            IF getVecThrows(w.tree, pred.device, pred.vector) THEN "throw"
            ELSE IF getPropertyValue(w.tree, pred.device, pred.vector, pred.prop) = "throw"
                 THEN "throw"
            ELSE Truth(getPropertyValue(w.tree, pred.device, pred.vector, pred.prop) = "On")
      [] pred.kind = "absent" -> Truth(~exists(w.tree, pred.device, pred.vector))
      [] pred.kind = "stateIs" ->
            Truth(exists(w.tree, pred.device, pred.vector)
                  /\ w.tree[pred.device][pred.vector].state = pred.prop)

\* the error a predicate throws: the one of getVec when the device is not
\* connected, else the one of getExistingVectorInTree
Thrown(w, c, pred) ==
    IF getVecThrows(w.tree, pred.device, pred.vector) THEN "notConnected"
    ELSE "notFound"

\* Promises.Cancelable, the settle-once future: next.isActive
isActive(w, id) == w.waits[id].outcome = "pending"

\* next.done, next.error, next.cancel: the first call decides the outcome;
\* calls counts the calls made
Settle(w, id, outcome, error) ==
    [w EXCEPT !.waits[id] =
        [@ EXCEPT !.calls = @ + 1,
                  !.outcome = IF @ = "pending" THEN outcome ELSE @,
                  !.error = IF w.waits[id].outcome = "pending" THEN error ELSE @]]

WaitListener(id) == [kind |-> "wait", id |-> id]

dettachKeepsListener(w, id) == [w EXCEPT !.waits[id].listener = FALSE]

\* dettach() of wait
dettach(w, id) ==
    IF w.waits[id].listener
    THEN [removeListener(w, w.waits[id].conn, WaitListener(id))
            EXCEPT !.waits[id].listener = FALSE]
    ELSE w

waitListenerStaysAttached(w, id) ==
    LET result == Eval(w, w.waits[id].conn, w.waits[id].pred)
    IN  IF result = "false" THEN w
        ELSE IF result = "throw"
             THEN Settle(w, id, "failed", Thrown(w, w.waits[id].conn, w.waits[id].pred))
        ELSE Settle(w, id, "resolved", "none")

\* the listener wait registers
waitListener(w, id) ==
    IF ~isActive(w, id) THEN w
    ELSE LET result == Eval(w, w.waits[id].conn, w.waits[id].pred)
         IN  IF result = "false" THEN w
             ELSE IF result = "throw"
                  THEN Settle(dettach(w, id), id, "failed",
                              Thrown(w, w.waits[id].conn, w.waits[id].pred))
             ELSE Settle(dettach(w, id), id, "resolved", "none")

waitAlwaysListens(w0, c, pred, allowDisconnectionState, owner) ==
    LET id == Len(w0.waits) + 1
        result == Eval(w0, c, pred)
        w == [w0 EXCEPT !.waits = Append(@,
                [conn |-> c, pred |-> pred, allow |-> allowDisconnectionState,
                 owner |-> owner, outcome |-> "pending", error |-> "none",
                 listener |-> FALSE, calls |-> 0,
                 atStart |-> result, deadAtStart |-> w0.conns[c].dead,
                 evaluated |-> ~(w0.conns[c].dead /\ ~allowDisconnectionState)])]
    IN  IF w.conns[c].dead /\ ~allowDisconnectionState
        THEN Settle(w, id, "failed", "disconnected")
        ELSE IF result = "throw" THEN Settle(w, id, "failed", Thrown(w, c, pred))
        ELSE [addListener(w, c, WaitListener(id)) EXCEPT !.waits[id].listener = TRUE]

waitIgnoresDead(w0, c, pred, allowDisconnectionState, owner) ==
    LET id == Len(w0.waits) + 1
        result == Eval(w0, c, pred)
        w == [w0 EXCEPT !.waits = Append(@,
                [conn |-> c, pred |-> pred, allow |-> allowDisconnectionState,
                 owner |-> owner, outcome |-> "pending", error |-> "none",
                 listener |-> FALSE, calls |-> 0,
                 atStart |-> result, deadAtStart |-> w0.conns[c].dead,
                 evaluated |-> TRUE])]
    IN  IF result = "throw" THEN Settle(w, id, "failed", Thrown(w, c, pred))
        ELSE IF result = "false"
             THEN [addListener(w, c, WaitListener(id)) EXCEPT !.waits[id].listener = TRUE]
        ELSE Settle(w, id, "resolved", "none")

\* IndiConnection.wait, started: the new wait is the last of waits
\* (atStart is what the predicate is worth when the call is made, evaluated
\* tells whether the call evaluated it)
wait(w0, c, pred, allowDisconnectionState, owner) ==
    LET id == Len(w0.waits) + 1
        result == Eval(w0, c, pred)
        w == [w0 EXCEPT !.waits = Append(@,
                [conn |-> c, pred |-> pred, allow |-> allowDisconnectionState,
                 owner |-> owner, outcome |-> "pending", error |-> "none",
                 listener |-> FALSE, calls |-> 0,
                 atStart |-> result, deadAtStart |-> w0.conns[c].dead,
                 evaluated |-> ~(w0.conns[c].dead /\ ~allowDisconnectionState)])]
    IN  IF w.conns[c].dead /\ ~allowDisconnectionState
        THEN Settle(w, id, "failed", "disconnected")
        ELSE IF result = "throw" THEN Settle(w, id, "failed", Thrown(w, c, pred))
        ELSE IF result = "false"
             THEN [addListener(w, c, WaitListener(id)) EXCEPT !.waits[id].listener = TRUE]
        ELSE Settle(w, id, "resolved", "none")

\* Cancelable.cancel: the cancel function wait sets runs while the wait is active
cancel(w, id) ==
    IF ~isActive(w, id) THEN w
    ELSE Settle(dettach(w, id), id, "cancelled", "none")

-----------------------------------------------------------------------------
(* Connection supervisor (IndiManager.ts) and listener dispatch *)

\* clear(this.currentStatus.deviceTree)
clear(obj) == EmptyMap

refreshStatusKeepsTree(w) ==
    IF w.connection = 0
    THEN [w EXCEPT !.status = "error", !.tree = clear(@)]
    ELSE IF ~w.conns[w.connection].connected
         THEN [w EXCEPT !.status = "connecting"]
    ELSE [w EXCEPT !.status = "connected"]

\* IndiManager.refreshStatus
refreshStatus(w) ==
    IF w.connection = 0
    THEN [w EXCEPT !.status = "error", !.tree = clear(@)]
    ELSE IF ~w.conns[w.connection].connected
         THEN [w EXCEPT !.status = "connecting", !.tree = clear(@)]
    ELSE [w EXCEPT !.status = "connected"]

RefreshListener(c) == [kind |-> "refresh", id |-> c]

\* a listener a caller registers with addListener: "keeps" does nothing,
\* "removesSelf" removes itself, "removesKeeps" removes the "keeps" one,
\* "throws" throws
UserListener(behaviour) == [kind |-> "user", id |-> behaviour]

\* the call todo() ends by an exception
Throws(todo) == todo.kind = "user" /\ todo.id = "throws"

userListener(w, c, todo) ==
    IF todo.id = "removesSelf" THEN removeListener(w, c, todo)
    ELSE IF todo.id = "removesKeeps"
         THEN [removeListener(w, c, UserListener("keeps")) EXCEPT
                  !.hist.pass.removed =
                      @ \cup (Range(w.conns[c].checkingListeners)
                                 \cap {UserListener("keeps")})]
    ELSE w

\* a call of a registered listener: todo()
Invoke(w0, c, todo) ==
    LET w == [w0 EXCEPT !.hist.pass.invoked = Append(@, todo)]
    IN  IF todo.kind = "wait" THEN waitListener(w, todo.id)
        ELSE IF todo.kind = "user" THEN userListener(w, c, todo)
        ELSE refreshStatus([w EXCEPT !.hist.owed = @ - 1])

RECURSIVE RunListeners(_, _)
\* the callback checkListeners hands to process.nextTick: todo() is called
\* outside any try block, so an exception of a listener ends the callback
RunListeners(w, c) ==
    IF Len(w.conns[c].checkingListeners) = 0 THEN w
    ELSE LET todo == Last(w.conns[c].checkingListeners)
             w1 == Invoke([w EXCEPT !.conns[c].checkingListeners = Front(@)], c, todo)
         IN  IF Throws(todo) THEN w1 ELSE RunListeners(w1, c)

\* the callback starts: the listeners registered then are noted
StartPass(w, c) ==
    [w EXCEPT !.hist.pass = [conn |-> c, atStart |-> w.conns[c].listeners,
                             invoked |-> <<>>, removed |-> {}]]

NewConnection ==
    [connected |-> FALSE, dead |-> FALSE, socket |-> "none", queue |-> <<>>,
     written |-> <<>>, listeners |-> <<>>, checkingListeners |-> <<>>,
     messageListeners |-> <<>>]

\* IndiManager.lifecycle, from the top of the loop to its first await
lifecycleStart(w0) ==
    LET c == Len(w0.conns) + 1
        w1 == [w0 EXCEPT !.conns = Append(@, [NewConnection EXCEPT !.socket = "opening"]),
                         !.connection = c]
        w2 == addListener(w1, c, RefreshListener(c))
        w3 == [w2 EXCEPT !.conns[c].messageListeners = Append(@, "addMessage")]
        w4 == wait(w3, c, [kind |-> "isDead", device |-> "", vector |-> "",
                           prop |-> "", vectors |-> <<>>], TRUE, "lifecycle")
    IN  [w4 EXCEPT !.lifecycle = [pc |-> "waitDead", conn |-> c, wait |-> Len(w4.waits)]]

lifecycleDeadKeepsReference(w) ==
    LET c == w.lifecycle.conn
        w1 == removeListener(w, c, RefreshListener(c))
    IN  [w1 EXCEPT !.lifecycle.pc = "sleep"]

\* IndiManager.lifecycle, from the end of the wait to the sleep
lifecycleDead(w) ==
    LET c == w.lifecycle.conn
        w1 == removeListener(w, c, RefreshListener(c))
        w2 == IF w1.connection = c
              THEN refreshStatus([w1 EXCEPT !.connection = 0])
              ELSE w1
    IN  [w2 EXCEPT !.lifecycle.pc = "sleep"]

-----------------------------------------------------------------------------
(* Command sequencer (IndiManager.ts). A call is a record of ops; pc names the
   await it is parked at, wait the wait it awaits. *)

Pred(kind, device, vector, prop, vectors) ==
    [kind |-> kind, device |-> device, vector |-> vector, prop |-> prop,
     vectors |-> vectors]

NewOp(kind, device, vector, prop) ==
    [kind |-> kind, conn |-> 0, device |-> device, vector |-> vector,
     prop |-> prop, pc |-> "start", wait |-> 0, result |-> "running",
     error |-> "none", cancelled |-> FALSE, selfStopped |-> FALSE,
     caught |-> "none", issued |-> <<>>, vecAtCleanup |-> FALSE,
     value |-> EmptyMap, force |-> FALSE, nowait |-> FALSE, cancelator |-> FALSE,
     hook |-> FALSE, aborts |-> 0, todo |-> <<>>, stage |-> 0, compared |-> "no",
     atCall |-> "none", vectors |-> <<>>]

\* the call ends by throwing
Throw(w, i, error) ==
    [w EXCEPT !.ops[i].result = "failed", !.ops[i].error = error,
              !.ops[i].pc = "done"]

\* the call ends by returning
Return(w, i) == [w EXCEPT !.ops[i].result = "resolved", !.ops[i].pc = "done"]

\* await connection.wait(...) of call i
Await(w, i, pred, pc) ==
    LET w1 == wait(w, w.ops[i].conn, pred, FALSE, "op")
    IN  [w1 EXCEPT !.ops[i].wait = Len(w1.waits), !.ops[i].pc = pc]

\* the error an await rethrows when its wait did not resolve
WaitError(w, i) ==
    LET r == w.waits[w.ops[i].wait]
    IN  IF r.outcome = "cancelled" THEN "cancelled"
        ELSE IF r.error = "disconnected" THEN "disconnected"
        ELSE r.error

waitForFirstVector(w0, device, vectors) ==
    LET i == Len(w0.ops) + 1
        w == [w0 EXCEPT !.ops = Append(@, [NewOp("waitForVectors", device, "", "")
                                            EXCEPT !.conn = w0.connection,
                                                   !.vectors = vectors])]
    IN  IF w.connection = 0 THEN Throw(w, i, "noConnection")
        ELSE Await(w, i, Pred("exists", device, "", "",
                              SubSeq(vectors, 1, IF vectors = <<>> THEN 0 ELSE 1)),
                   "awaitVectors")

\* waitForVectors, called by itself, up to its await
waitForVectors(w0, device, vectors) ==
    LET i == Len(w0.ops) + 1
        w == [w0 EXCEPT !.ops = Append(@, [NewOp("waitForVectors", device, "", "")
                                            EXCEPT !.conn = w0.connection,
                                                   !.vectors = vectors])]
    IN  IF w.connection = 0 THEN Throw(w, i, "noConnection")
        ELSE Await(w, i, Pred("exists", device, "", "", vectors), "awaitVectors")

\* waitForVectors after its await
waitAfterVectors(w, i) ==
    IF w.waits[w.ops[i].wait].outcome # "resolved" THEN Throw(w, i, WaitError(w, i))
    ELSE Return(w, i)

\* vec.setValues([{name: propId, value}]) of call i; the call's own commands
\* are kept in issued
opSetValues(w, i, value) ==
    LET o == w.ops[i]
        w1 == setValues(w, o.conn, o.device, o.vector,
                        <<[name |-> o.prop, value |-> value]>>)
    IN  [w1 EXCEPT !.ops[i].issued = Append(@, value)]

\* pulseParam up to the wait of waitForVectors
pulseStart(w0, device, vector, prop) ==
    LET i == Len(w0.ops) + 1
        w == [w0 EXCEPT !.ops = Append(@, [NewOp("pulse", device, vector, prop)
                                            EXCEPT !.conn = w0.connection])]
    IN  IF w.connection = 0 THEN Throw(w, i, "noConnection")
        ELSE IF getVecThrows(w.tree, device, vector) THEN Throw(w, i, "notConnected")
        ELSE Await(w, i, Pred("exists", device, "", "", <<vector>>), "awaitVectors")

\* pulseParam from waitForVectors to the wait for the vector to be idle
pulseAfterVectors(w, i) ==
    LET o == w.ops[i]
    IN  IF w.waits[o.wait].outcome # "resolved" THEN Throw(w, i, WaitError(w, i))
        ELSE Await(w, i, Pred("notBusy", o.device, o.vector, "", <<>>), "awaitIdle")

\* pulseParam from the idle wait to the busy wait: the property is set "On"
pulseAfterIdle(w, i) ==
    LET o == w.ops[i]
    IN  IF w.waits[o.wait].outcome # "resolved" THEN Throw(w, i, WaitError(w, i))
        ELSE IF getVecThrows(w.tree, o.device, o.vector) THEN Throw(w, i, "notConnected")
        ELSE IF getState(w.tree, o.device, o.vector) = "throw" THEN Throw(w, i, "notFound")
        ELSE IF getState(w.tree, o.device, o.vector) = "Busy" THEN Throw(w, i, "busy")
        ELSE Await(opSetValues(w, i, "On"), i,
                   Pred("notBusy", o.device, o.vector, "", <<>>), "awaitBusy")

pulseCleanupSkipsOff(w, i) ==
    LET o == w.ops[i]
    IN  IF o.selfStopped THEN Throw(w, i, o.caught)
        ELSE Throw([w EXCEPT !.ops[i].vecAtCleanup =
                        exists(w.tree, o.device, o.vector)], i, o.caught)

\* the finally block of pulseParam: unless the busy wait ended by itself the
\* property is set "Off" and the vector awaited idle again, with a token that
\* is never cancelled
pulseCleanup(w, i) ==
    LET o == w.ops[i]
        w1 == [w EXCEPT !.ops[i].vecAtCleanup = exists(w.tree, o.device, o.vector)]
    IN  IF o.selfStopped THEN Throw(w, i, o.caught)
        ELSE IF ~exists(w.tree, o.device, o.vector) THEN Throw(w1, i, "notFound")
        ELSE Await(opSetValues(w1, i, "Off"), i,
                   Pred("notBusy", o.device, o.vector, "", <<>>), "awaitOff")

pulseAfterBusyReturns(w, i) ==
    IF w.waits[w.ops[i].wait].outcome = "resolved"
    THEN Return(w, i)
    ELSE pulseCleanup([w EXCEPT !.ops[i].caught = WaitError(w, i)], i)

\* pulseParam after the busy wait: the try block ends, by the "Property
\* stopped" error when the wait resolved
pulseAfterBusy(w, i) ==
    IF w.waits[w.ops[i].wait].outcome = "resolved"
    THEN pulseCleanup([w EXCEPT !.ops[i].selfStopped = TRUE,
                                !.ops[i].caught = "stopped"], i)
    ELSE pulseCleanup([w EXCEPT !.ops[i].caught = WaitError(w, i)], i)

\* pulseParam after the wait of the finally block: the error of the try block
\* is rethrown, unless that wait failed itself
pulseAfterOff(w, i) ==
    IF w.waits[w.ops[i].wait].outcome = "resolved"
    THEN Throw(w, i, w.ops[i].caught)
    ELSE Throw(w, i, WaitError(w, i))

\* Object.keys(value).sort(): the keys the callers of the model use, sorted
KeyOrder == <<"CONFIG_LOAD", "CONNECT", "DISCONNECT", "P", "Q">>

RECURSIVE TodoWritesEqual(_, _, _, _, _, _)
TodoWritesEqual(tree, device, vector, value, force, k) ==
    IF k > Len(KeyOrder) THEN <<>>
    ELSE LET key == KeyOrder[k]
             rest == TodoWritesEqual(tree, device, vector, value, force, k + 1)
         IN  IF ~has(value, key) THEN rest
             ELSE IF value[key] = "null" THEN rest
             ELSE <<[name |-> key, value |-> value[key]]>> \o rest

RECURSIVE TodoIgnoresForce(_, _, _, _, _, _)
TodoIgnoresForce(tree, device, vector, value, force, k) ==
    IF k > Len(KeyOrder) THEN <<>>
    ELSE LET key == KeyOrder[k]
             rest == TodoIgnoresForce(tree, device, vector, value, force, k + 1)
         IN  IF ~has(value, key) THEN rest
             ELSE IF value[key] = "null" THEN rest
             ELSE IF getPropertyValueIfExists(tree, device, vector, key) # value[key]
                  THEN <<[name |-> key, value |-> value[key]]>> \o rest
             ELSE rest

RECURSIVE Todo(_, _, _, _, _, _)
\* the loop of setParam that builds todo, from the k-th sorted key on
Todo(tree, device, vector, value, force, k) ==
    IF k > Len(KeyOrder) THEN <<>>
    ELSE LET key == KeyOrder[k]
             rest == Todo(tree, device, vector, value, force, k + 1)
         IN  IF ~has(value, key) THEN rest
             ELSE IF value[key] = "null" THEN rest
             ELSE IF force \/ getPropertyValueIfExists(tree, device, vector, key) # value[key]
                  THEN <<[name |-> key, value |-> value[key]]>> \o rest
             ELSE rest

RECURSIVE setBegin(_, _)
setReturnEndsCall(w, i) == Return(w, i)

\* setParam returns todo; connectDevice goes on with its second setParam
setReturn(w, i) ==
    IF w.ops[i].kind = "connect" /\ w.ops[i].stage = 1
    THEN setBegin([w EXCEPT !.ops[i].stage = 2,
                            !.ops[i].vector = "CONFIG_PROCESS",
                            !.ops[i].value = [CONFIG_LOAD |-> "On"]], i)
    ELSE Return(w, i)

setBeginUnchecked(w0, i) ==
    LET w == [w0 EXCEPT !.ops[i].conn = w0.connection]
        o == w.ops[i]
    IN  IF w.connection = 0 THEN Throw(w, i, "noConnection")
        ELSE Await(w, i, Pred("exists", o.device, "", "", <<o.vector>>), "awaitVectors")

\* setParam from its entry to the wait of waitForVectors
setBegin(w0, i) ==
    LET w == [w0 EXCEPT !.ops[i].conn = w0.connection]
        o == w.ops[i]
    IN  IF w.connection = 0 THEN Throw(w, i, "noConnection")
        ELSE IF getVecThrows(w.tree, o.device, o.vector) THEN Throw(w, i, "notConnected")
        ELSE Await(w, i, Pred("exists", o.device, "", "", <<o.vector>>), "awaitVectors")

\* every entry of the value set that is not null is the current value of
\* its child
AllEqual(tree, device, vector, value) ==
    \A key \in DOMAIN value :
        value[key] = "null"
        \/ getPropertyValueIfExists(tree, device, vector, key) = value[key]

setComputeIgnoresBusy(w, i) ==
    LET o == w.ops[i]
        todo == Todo(w.tree, o.device, o.vector, o.value, o.force, 1)
        w1 == [w EXCEPT !.ops[i].todo = todo,
                        !.ops[i].compared =
                            IF AllEqual(w.tree, o.device, o.vector, o.value)
                            THEN "same" ELSE "differs"]
        w2 == [setValues(w1, o.conn, o.device, o.vector, todo)
                  EXCEPT !.ops[i].issued =
                            Append(@, [vector |-> o.vector, items |-> todo])]
    IN  IF getVecThrows(w.tree, o.device, o.vector) THEN Throw(w, i, "notConnected")
        ELSE IF getState(w.tree, o.device, o.vector) = "throw" THEN Throw(w, i, "notFound")
        ELSE IF todo = <<>> THEN setReturn(w1, i)
        ELSE IF o.cancelator /\ o.cancelled THEN Throw(w2, i, "cancelled")
        ELSE Await([w2 EXCEPT !.ops[i].hook = o.cancelator], i,
                   Pred("notBusy", o.device, o.vector, "", <<>>), "awaitDone")

\* setParam from the idle wait (skipped with nowait) on: todo is built, and
\* unless it is empty the command is issued and the vector awaited not Busy
setCompute(w, i) ==
    LET o == w.ops[i]
        todo == Todo(w.tree, o.device, o.vector, o.value, o.force, 1)
        w1 == [w EXCEPT !.ops[i].todo = todo,
                        !.ops[i].compared =
                            IF AllEqual(w.tree, o.device, o.vector, o.value)
                            THEN "same" ELSE "differs"]
        w2 == [setValues(w1, o.conn, o.device, o.vector, todo)
                  EXCEPT !.ops[i].issued =
                            Append(@, [vector |-> o.vector, items |-> todo])]
    IN  IF getVecThrows(w.tree, o.device, o.vector) THEN Throw(w, i, "notConnected")
        ELSE IF getState(w.tree, o.device, o.vector) = "throw" THEN Throw(w, i, "notFound")
        ELSE IF getState(w.tree, o.device, o.vector) = "Busy" THEN Throw(w, i, "busy")
        ELSE IF todo = <<>> THEN setReturn(w1, i)
        ELSE IF o.cancelator /\ o.cancelled THEN Throw(w2, i, "cancelled")
        ELSE Await([w2 EXCEPT !.ops[i].hook = o.cancelator], i,
                   Pred("notBusy", o.device, o.vector, "", <<>>), "awaitDone")

\* setParam after waitForVectors
setAfterVectors(w, i) ==
    LET o == w.ops[i]
    IN  IF w.waits[o.wait].outcome # "resolved" THEN Throw(w, i, WaitError(w, i))
        ELSE IF ~o.nowait
             THEN Await(w, i, Pred("notBusy", o.device, o.vector, "", <<>>), "awaitIdle")
        ELSE setCompute(w, i)

\* setParam after the idle wait
setAfterIdle(w, i) ==
    IF w.waits[w.ops[i].wait].outcome # "resolved" THEN Throw(w, i, WaitError(w, i))
    ELSE setCompute(w, i)

setAfterDoneConfirms(w0, i) ==
    LET w == [w0 EXCEPT !.ops[i].hook = FALSE]
        o == w.ops[i]
    IN  IF w.waits[o.wait].outcome # "resolved" THEN Throw(w, i, WaitError(w, i))
        ELSE IF o.cancelator /\ o.cancelled THEN Throw(w, i, "cancelled")
        ELSE IF \E n \in DOMAIN o.todo :
                    getPropertyValueIfExists(w.tree, o.device, o.vector, o.todo[n].name)
                        # o.todo[n].value
             THEN Throw(w, i, "notFound")
        ELSE setReturn(w, i)

setAfterDoneKeepsHook(w, i) ==
    IF w.waits[w.ops[i].wait].outcome # "resolved" THEN Throw(w, i, WaitError(w, i))
    ELSE IF w.ops[i].cancelator /\ w.ops[i].cancelled THEN Throw(w, i, "cancelled")
    ELSE setReturn(w, i)

\* setParam after the wait that follows its command; the finally block
\* deregisters the cancelator
setAfterDone(w0, i) ==
    LET w == [w0 EXCEPT !.ops[i].hook = FALSE]
    IN  IF w.waits[w.ops[i].wait].outcome # "resolved" THEN Throw(w, i, WaitError(w, i))
        ELSE IF w.ops[i].cancelator /\ w.ops[i].cancelled THEN Throw(w, i, "cancelled")
        ELSE setReturn(w, i)

\* a call of setParam
setParam(w0, device, vector, value, force, nowait, cancelator) ==
    LET i == Len(w0.ops) + 1
    IN  setBegin([w0 EXCEPT !.ops = Append(@,
                    [NewOp("set", device, vector, "") EXCEPT
                        !.value = value, !.force = force, !.nowait = nowait,
                        !.cancelator = cancelator])], i)

\* IndiManager.connectDevice up to the first await of its first setParam
connectDevice(w0, device) ==
    LET i == Len(w0.ops) + 1
        w == [w0 EXCEPT !.ops = Append(@,
                 [NewOp("connect", device, "CONNECTION", "") EXCEPT
                     !.stage = 1, !.value = [CONNECT |-> "On"]])]
    IN  IF w.connection = 0 THEN Throw(w, i, "noConnection")
        ELSE IF getState(w.tree, device, "CONNECTION") = "throw" THEN Throw(w, i, "notFound")
        ELSE IF getState(w.tree, device, "CONNECTION") = "Busy"
             THEN Throw(w, i, "alreadyPending")
        ELSE IF getPropertyValue(w.tree, device, "CONNECTION", "CONNECT") = "throw"
             THEN Throw(w, i, "notFound")
        ELSE IF getPropertyValue(w.tree, device, "CONNECTION", "CONNECT") = "On"
             THEN Return(w, i)
        ELSE setBegin(w, i)

updateVectorAnyConnection(w0, device, vector, children) ==
    LET i == Len(w0.ops) + 1
        w == [w0 EXCEPT !.ops = Append(@,
                 [NewOp("update", device, vector, "") EXCEPT !.conn = w0.connection])]
    IN  IF ~exists(w.tree, device, vector) THEN Throw(w, i, "notFound")
        ELSE Return([setValues(w, Len(w.conns), device, vector, children)
                        EXCEPT !.ops[i].issued =
                                  Append(@, [vector |-> vector, items |-> children])], i)

\* IndiManager.updateVector: no await, the call ends in the calling step
updateVector(w0, device, vector, children) ==
    LET i == Len(w0.ops) + 1
        w == [w0 EXCEPT !.ops = Append(@,
                 [NewOp("update", device, vector, "") EXCEPT !.conn = w0.connection])]
    IN  IF w.connection = 0 THEN Throw(w, i, "noConnection")
        ELSE IF ~exists(w.tree, device, vector) THEN Throw(w, i, "notFound")
        ELSE Return([setValues(w, w.connection, device, vector, children)
                        EXCEPT !.ops[i].issued =
                                  Append(@, [vector |-> vector, items |-> children])], i)

checkDeviceConnectedIfDefined(w, device) ==
    /\ w.connection # 0
    /\ getPropertyValueIfExists(w.tree, device, "CONNECTION", "CONNECT") # "null"

\* IndiManager.checkDeviceConnected: TRUE when it returns the device
checkDeviceConnected(w, device) ==
    /\ w.connection # 0
    /\ getPropertyValueIfExists(w.tree, device, "CONNECTION", "CONNECT") = "On"

\* a call of checkDeviceConnected, with the error it throws
checkDeviceConnectedCall(w0, device) ==
    LET i == Len(w0.ops) + 1
        w == [w0 EXCEPT !.ops = Append(@,
                 [NewOp("check", device, "CONNECTION", "CONNECT")
                     EXCEPT !.conn = w0.connection])]
    IN  IF w.connection = 0 THEN Throw(w, i, "noConnection")
        ELSE IF ~checkDeviceConnected(w, device) THEN Throw(w, i, "notConnected")
        ELSE Return(w, i)

disconnectDeviceIgnoresBusy(w0, device) ==
    LET i == Len(w0.ops) + 1
        w == [w0 EXCEPT !.ops = Append(@,
                 [NewOp("disconnect", device, "CONNECTION", "") EXCEPT
                     !.value = [DISCONNECT |-> "On"]])]
    IN  IF w.connection = 0 THEN Throw(w, i, "noConnection")
        ELSE IF getState(w.tree, device, "CONNECTION") = "throw" THEN Throw(w, i, "notFound")
        ELSE IF getPropertyValue(w.tree, device, "CONNECTION", "CONNECT") = "throw"
             THEN Throw(w, i, "notFound")
        ELSE IF getPropertyValue(w.tree, device, "CONNECTION", "CONNECT") = "Off"
             THEN Return(w, i)
        ELSE setBegin(w, i)

\* IndiManager.disconnectDevice
disconnectDevice(w0, device) ==
    LET i == Len(w0.ops) + 1
        w == [w0 EXCEPT !.ops = Append(@,
                 [NewOp("disconnect", device, "CONNECTION", "") EXCEPT
                     !.value = [DISCONNECT |-> "On"]])]
    IN  IF w.connection = 0 THEN Throw(w, i, "noConnection")
        ELSE IF getState(w.tree, device, "CONNECTION") = "throw" THEN Throw(w, i, "notFound")
        ELSE IF getState(w.tree, device, "CONNECTION") = "Busy"
             THEN Throw(w, i, "alreadyPending")
        ELSE IF getPropertyValue(w.tree, device, "CONNECTION", "CONNECT") = "throw"
             THEN Throw(w, i, "notFound")
        ELSE IF getPropertyValue(w.tree, device, "CONNECTION", "CONNECT") = "Off"
             THEN Return(w, i)
        ELSE setBegin(w, i)

activateWaitsNotBusy(w, i) ==
    LET o == w.ops[i]
        items == <<[name |-> o.prop, value |-> "On"]>>
        w1 == setValues(w, o.conn, o.device, o.vector, items)
    IN  Await([w1 EXCEPT !.ops[i].issued = Append(@, [vector |-> o.vector, items |-> items])],
              i, Pred("notBusy", o.device, o.vector, "", <<>>), "awaitOn")

\* vec.setValues([{name: propId, value: 'On'}]) of activate, and its wait for
\* the property to read "On"
activateSets(w, i) ==
    LET o == w.ops[i]
        items == <<[name |-> o.prop, value |-> "On"]>>
        w1 == setValues(w, o.conn, o.device, o.vector, items)
    IN  Await([w1 EXCEPT !.ops[i].issued = Append(@, [vector |-> o.vector, items |-> items])],
              i, Pred("propOn", o.device, o.vector, o.prop, <<>>), "awaitOn")

actAlwaysSets(w, i) ==
    LET o == w.ops[i]
    IN  IF w.waits[o.wait].outcome # "resolved" THEN Throw(w, i, WaitError(w, i))
        ELSE IF getVecThrows(w.tree, o.device, o.vector) THEN Throw(w, i, "notConnected")
        ELSE IF getState(w.tree, o.device, o.vector) = "throw" THEN Throw(w, i, "notFound")
        ELSE activateSets(w, i)

\* activate after waitForVectors
actAfterVectors(w, i) ==
    LET o == w.ops[i]
    IN  IF w.waits[o.wait].outcome # "resolved" THEN Throw(w, i, WaitError(w, i))
        ELSE IF getVecThrows(w.tree, o.device, o.vector) THEN Throw(w, i, "notConnected")
        ELSE IF getState(w.tree, o.device, o.vector) = "throw" THEN Throw(w, i, "notFound")
        ELSE IF getState(w.tree, o.device, o.vector) = "Busy"
                /\ getPropertyValue(w.tree, o.device, o.vector, o.prop) = "throw"
             THEN Throw(w, i, "notFound")
        ELSE IF getState(w.tree, o.device, o.vector) = "Busy"
                /\ getPropertyValue(w.tree, o.device, o.vector, o.prop) = "On"
             THEN Return(w, i)
        ELSE activateSets(w, i)

\* activate after the wait for the property to read "On"
actAfterOn(w, i) ==
    IF w.waits[w.ops[i].wait].outcome # "resolved" THEN Throw(w, i, WaitError(w, i))
    ELSE Return(w, i)

\* IndiManager.activate up to the wait of waitForVectors; atCall notes a
\* vector found Busy with the property "On" on a connected device
activate(w0, device, vector, prop) ==
    LET i == Len(w0.ops) + 1
        busyOn == /\ w0.connection # 0
                  /\ ~getVecThrows(w0.tree, device, vector)
                  /\ getState(w0.tree, device, vector) = "Busy"
                  /\ getPropertyValue(w0.tree, device, vector, prop) = "On"
        w == [w0 EXCEPT !.ops = Append(@,
                 [NewOp("activate", device, vector, prop) EXCEPT
                     !.conn = w0.connection,
                     !.atCall = IF busyOn THEN "busyOn" ELSE "other"])]
    IN  IF w.connection = 0 THEN Throw(w, i, "noConnection")
        ELSE IF getVecThrows(w.tree, device, vector) THEN Throw(w, i, "notConnected")
        ELSE Await(w, i, Pred("exists", device, "", "", <<vector>>), "awaitVectors")

\* the continuation of call i after the await it is parked at
opResume(w, i) ==
    IF w.ops[i].kind = "waitForVectors" THEN waitAfterVectors(w, i)
    ELSE IF w.ops[i].kind = "activate"
    THEN CASE w.ops[i].pc = "awaitVectors" -> actAfterVectors(w, i)
           [] w.ops[i].pc = "awaitOn" -> actAfterOn(w, i)
    ELSE IF w.ops[i].kind = "pulse"
    THEN CASE w.ops[i].pc = "awaitVectors" -> pulseAfterVectors(w, i)
           [] w.ops[i].pc = "awaitIdle" -> pulseAfterIdle(w, i)
           [] w.ops[i].pc = "awaitBusy" -> pulseAfterBusy(w, i)
           [] w.ops[i].pc = "awaitOff" -> pulseAfterOff(w, i)
    ELSE CASE w.ops[i].pc = "awaitVectors" -> setAfterVectors(w, i)
           [] w.ops[i].pc = "awaitIdle" -> setAfterIdle(w, i)
           [] w.ops[i].pc = "awaitDone" -> setAfterDone(w, i)

\* the caller's token is cancelled: the wait the call is parked at is
\* cancelled, unless it was started with CancellationToken.CONTINUE
opCancel(w, i) ==
    LET w1 == [w EXCEPT !.ops[i].cancelled = TRUE,
                        !.ops[i].aborts = IF w.ops[i].hook THEN @ + 1 ELSE @]
    IN  IF w.ops[i].pc = "awaitOff" THEN w1 ELSE cancel(w1, w.ops[i].wait)

\* the caller's token is cancelled after the call has ended: the callbacks
\* still registered on the token run
opCancelAfterExit(w, i) ==
    [w EXCEPT !.ops[i].cancelled = TRUE,
              !.ops[i].aborts = IF w.ops[i].hook THEN @ + 1 ELSE @]

\* the 5 s timer of waitForVectors fires: its wait is cancelled and the call
\* fails with the missing vector error
opTimeout(w, i) ==
    Throw(cancel(w, w.ops[i].wait), i, "missingVector")

-----------------------------------------------------------------------------
(* Inputs: the messages a server sends *)

Child(name, value) == [name |-> name, hasValue |-> TRUE, value |-> value]

DefMsg(device, name, state, children) ==
    [kind |-> "def", device |-> device, hasName |-> TRUE, name |-> name,
     type |-> "Switch", state |-> state, hasTimeout |-> TRUE, timeout |-> 60,
     timestamp |-> "t0", message |-> "undefined",
     hasChildren |-> TRUE, children |-> children]

SetMsg(device, name, state, children) ==
    [kind |-> "set", device |-> device, hasName |-> TRUE, name |-> name,
     type |-> "Switch", state |-> state, hasTimeout |-> FALSE, timeout |-> 0,
     timestamp |-> "t1", message |-> "undefined",
     hasChildren |-> TRUE, children |-> children]

DelMsg(device, hasName, name) ==
    [kind |-> "del", device |-> device, hasName |-> hasName, name |-> name,
     type |-> "", state |-> "", hasTimeout |-> FALSE, timeout |-> 0,
     timestamp |-> "", message |-> "undefined",
     hasChildren |-> FALSE, children |-> <<>>]

NoteMsg ==
    [kind |-> "message", device |-> "CCD", hasName |-> FALSE, name |-> "",
     type |-> "", state |-> "", hasTimeout |-> FALSE, timeout |-> 0,
     timestamp |-> "t2", message |-> "note",
     hasChildren |-> FALSE, children |-> <<>>]

DefConnection(connect) ==
    DefMsg("CCD", "CONNECTION", "Idle",
           <<Child("CONNECT", connect),
             Child("DISCONNECT", IF connect = "On" THEN "Off" ELSE "On")>>)

\* the messages of the wait engine's and the sequencer's runs
CoreMsgs ==
    {DefConnection("On"),
     DefMsg("CCD", "V", "Idle", <<Child("P", "Off")>>),
     SetMsg("CCD", "V", "Ok", <<Child("P", "On")>>),
     SetMsg("CCD", "V", "Busy", <<Child("P", "On")>>),
     SetMsg("CCD", "V", "Idle", <<Child("P", "Off")>>),
     DelMsg("CCD", TRUE, "V"),
     DelMsg("CCD", FALSE, "")}

\* the chunks of several messages of those runs
CoreChunks ==
    {<<SetMsg("CCD", "V", "Ok", <<Child("P", "On")>>),
       SetMsg("CCD", "V", "Idle", <<Child("P", "Off")>>)>>,
     <<DefConnection("On"), DefMsg("CCD", "V", "Idle", <<Child("P", "Off")>>)>>}

\* the messages of the reducer's runs: two devices, redefinitions with other
\* children, updates naming unknown children, without value, without children
TreeMsgs ==
    {DefConnection("Off"),
     DefMsg("CCD", "V", "Idle", <<Child("P", "Off"), Child("Q", "1")>>),
     DefMsg("CCD", "V", "Busy", <<Child("Q", "2")>>),
     DefMsg("Mount", "V", "Ok", <<Child("P", "Off"), Child("P", "On")>>),
     SetMsg("CCD", "V", "Ok", <<Child("P", "On"), Child("R", "3")>>),
     SetMsg("CCD", "V", "Alert", <<[name |-> "Q", hasValue |-> FALSE, value |-> ""]>>),
     [SetMsg("Mount", "V", "Busy", <<>>) EXCEPT !.hasChildren = FALSE,
                                                !.message = "slewing"],
     [SetMsg("CCD", "CONNECTION", "Ok", <<Child("CONNECT", "On")>>)
        EXCEPT !.hasTimeout = TRUE, !.timeout = 5],
     DelMsg("CCD", TRUE, "V"),
     DelMsg("Mount", FALSE, ""),
     NoteMsg}

TreeChunks ==
    {<<DefConnection("Off"), DelMsg("CCD", TRUE, "CONNECTION")>>}

Singles(msgs) == {<<m>> : m \in msgs}

\* clock readings (milliseconds) of the connection runs
MaxClock == 1

Clock == 0..MaxClock

HasNote(chunk) == \E i \in 1..Len(chunk) : chunk[i].kind = "message"

-----------------------------------------------------------------------------
(* Initial state: the manager constructed, lifecycle() run to its first await *)

Hist0 ==
    [latestDef |-> EmptyMap, defs |-> 0, owed |-> 0, added |-> 0,
     prevUid |-> <<>>, lastUid |-> <<>>, now |-> -1, closedWith |-> 0,
     pendingAtClose |-> {},
     flushed |-> 0, delivered |-> <<>>,
     pass |-> [conn |-> 0, atStart |-> <<>>, invoked |-> <<>>, removed |-> {}]]

\* a selector whose read() returns null; sets, total and updates are history:
\* the calls of set made by the last update, by all updates, and the updates run
Selector0 ==
    [present |-> FALSE, available |-> <<>>, current |-> "null",
     prefered |-> "null", sets |-> 0, total |-> 0, updates |-> 0]

World0 ==
    [rev |-> 0, tree |-> EmptyMap, status |-> "connecting", conns |-> <<>>,
     connection |-> 0, tick |-> <<>>, waits |-> <<>>,
     lifecycle |-> [pc |-> "start", conn |-> 0, wait |-> 0], ops |-> <<>>,
     stamp |-> -1, serial |-> -1, byUid |-> EmptyMap, sel |-> Selector0,
     hist |-> Hist0]

InitTo(w) ==
    /\ globalRevisionId = w.rev
    /\ deviceTree = w.tree
    /\ status = w.status
    /\ conns = w.conns
    /\ connection = w.connection
    /\ nextTick = w.tick
    /\ waits = w.waits
    /\ lifecycle = w.lifecycle
    /\ ops = w.ops
    /\ lastMessageStamp = w.stamp
    /\ lastMessageSerial = w.serial
    /\ byUid = w.byUid
    /\ selector = w.sel
    /\ hist = w.hist

Init == InitTo(lifecycleStart(World0))

-----------------------------------------------------------------------------
(* Scheduling: a nextTick callback runs before anything else, a continuation
   of a settled await before any socket event or timer *)

LifecycleRunnable ==
    /\ lifecycle.pc = "waitDead"
    /\ waits[lifecycle.wait].outcome # "pending"

OpRunnable(i) ==
    /\ ops[i].result = "running"
    /\ waits[ops[i].wait].outcome # "pending"

Quiescent ==
    /\ nextTick = <<>>
    /\ ~LifecycleRunnable
    /\ \A i \in DOMAIN ops : ~OpRunnable(i)

-----------------------------------------------------------------------------
(* Events *)

\* the discovery request, '<getProperties version="1.7"/>'
GetProperties == [device |-> "", name |-> "getProperties", type |-> "", items |-> <<>>]

\* socket.on('connect')
SocketConnect(c) ==
    /\ Quiescent
    /\ conns[c].socket = "opening"
    /\ globalRevisionId < MaxRev
    /\ LET w1 == [World EXCEPT !.conns[c].connected = TRUE,
                               !.conns[c].socket = "open",
                               !.conns[c].written = Append(@, GetProperties),
                               !.hist.flushed = Len(conns[c].queue)]
           w2 == flushQueue(w1, c)
       IN  Commit([w2 EXCEPT !.rev = @ + 1])

\* socket.on('data') with a chunk of complete elements
SocketData(c, chunk, now) ==
    /\ Quiescent
    /\ conns[c].socket = "open"
    /\ globalRevisionId + Len(chunk) <= MaxRev
    /\ Commit(onData(World, c, chunk, 1, now))

onCloseKeepsQueue(w, c) ==
    checkListeners(
        [w EXCEPT !.rev = @ + 1,
                  !.conns[c].connected = FALSE,
                  !.conns[c].socket = "closed",
                  !.conns[c].dead = TRUE,
                  !.hist.closedWith = Cardinality(DOMAIN w.tree),
                  !.hist.pendingAtClose = @ \cup
                      {id \in DOMAIN w.waits :
                          /\ w.waits[id].conn = c
                          /\ w.waits[id].outcome = "pending"}], c)

\* socket.on('close')
onClose(w, c) ==
    checkListeners(
        [w EXCEPT !.rev = @ + 1,
                  !.conns[c].connected = FALSE,
                  !.conns[c].queue = <<>>,
                  !.conns[c].socket = "closed",
                  !.conns[c].dead = TRUE,
                  !.hist.closedWith = Cardinality(DOMAIN w.tree),
                  !.hist.pendingAtClose = @ \cup
                      {id \in DOMAIN w.waits :
                          /\ w.waits[id].conn = c
                          /\ w.waits[id].outcome = "pending"}], c)

SocketClose(c) ==
    /\ Quiescent
    /\ conns[c].socket \in {"opening", "open"}
    /\ globalRevisionId < MaxRev
    /\ Commit(onClose(World, c))

\* the next callback of the process.nextTick queue
NextTickRun ==
    /\ nextTick # <<>>
    /\ Commit(RunListeners(StartPass([World EXCEPT !.tick = Tail(@)], Head(nextTick)),
                            Head(nextTick)))

\* lifecycle resumes after its wait
LifecycleDead ==
    /\ nextTick = <<>>
    /\ LifecycleRunnable
    /\ Commit(lifecycleDead(World))

\* the 2 s sleep ends and the loop starts again
LifecycleRestart ==
    /\ Quiescent
    /\ lifecycle.pc = "sleep"
    /\ Len(conns) < MaxConns
    /\ Commit(lifecycleStart(World))

\* a caller starts a wait on a connection it holds
UserPreds ==
    {[kind |-> "exists", device |-> "CCD", vector |-> "", prop |-> "",
      vectors |-> <<"V">>],
     [kind |-> "stateIs", device |-> "CCD", vector |-> "V", prop |-> "Ok",
      vectors |-> <<>>],
     [kind |-> "notBusy", device |-> "CCD", vector |-> "V", prop |-> "",
      vectors |-> <<>>],
     [kind |-> "absent", device |-> "CCD", vector |-> "V", prop |-> "",
      vectors |-> <<>>]}

UserWait(c, pred, allow) ==
    /\ Quiescent
    /\ Cardinality({i \in DOMAIN waits : waits[i].owner = "user"}) < MaxUserWaits
    /\ Commit(wait(World, c, pred, allow, "user"))

\* a caller cancels a wait it started
UserCancel(id) ==
    /\ Quiescent
    /\ waits[id].owner = "user"
    /\ Commit(cancel(World, id))

\* a caller registers a listener of its own with addListener, once each
UserListeners == {"keeps", "removesSelf", "removesKeeps"}

UserAddListener(c, behaviour) ==
    /\ Quiescent
    /\ ~conns[c].dead
    /\ UserListener(behaviour) \notin Range(conns[c].listeners)
    /\ Commit(addListener(World, c, UserListener(behaviour)))

\* a caller calls checkDeviceConnected
CheckDeviceConnected(device) ==
    /\ Quiescent
    /\ Len(ops) < MaxOps
    /\ Commit(checkDeviceConnectedCall(World, device))

\* a caller calls disconnectDevice
DisconnectDevice(device) ==
    /\ Quiescent
    /\ Len(ops) < MaxOps
    /\ Commit(disconnectDevice(World, device))

\* the message listeners of callers: one returns, one throws
UserMessageListeners == {"logs", "throws"}

\* a caller registers a message listener with addMessageListener, once each
UserAddMessageListener(c, listener) ==
    /\ Quiescent
    /\ ~conns[c].dead
    /\ listener \notin Range(conns[c].messageListeners)
    /\ Commit([World EXCEPT !.conns[c].messageListeners = Append(@, listener)])

\* a caller calls connectDevice
ConnectDevice(device) ==
    /\ Quiescent
    /\ Len(ops) < MaxOps
    /\ Commit(connectDevice(World, device))

\* a caller calls setParam
SetParam(device, vector, value, force, nowait, cancelator) ==
    /\ Quiescent
    /\ Len(ops) < MaxOps
    /\ Commit(setParam(World, device, vector, value, force, nowait, cancelator))

\* a caller calls activate
Activate(device, vector, prop) ==
    /\ Quiescent
    /\ Len(ops) < MaxOps
    /\ Commit(activate(World, device, vector, prop))

\* a caller calls updateVector
UpdateVector(device, vector, children) ==
    /\ Quiescent
    /\ Len(ops) < MaxOps
    /\ Commit(updateVector(World, device, vector, children))

\* the commands callers hand to queueMessage themselves
UserCommands ==
    {[device |-> "CCD", name |-> "A", type |-> "Text", items |-> <<>>],
     [device |-> "CCD", name |-> "B", type |-> "Text", items |-> <<>>]}

\* a caller calls queueMessage on a connection it holds, connected or not
UserQueueMessage(c, msg) ==
    /\ Quiescent
    /\ Len(conns[c].written) + Len(conns[c].queue) < MaxQueued
    /\ Commit(queueMessage(World, c, msg))

\* a caller calls pulseParam
PulseParam(device, vector, prop) ==
    /\ Quiescent
    /\ Len(ops) < MaxOps
    /\ Commit(pulseStart(World, device, vector, prop))

\* a caller calls waitForVectors
WaitForVectors(device, vectors) ==
    /\ Quiescent
    /\ Len(ops) < MaxOps
    /\ Commit(waitForVectors(World, device, vectors))

\* a caller calls setParam, possibly while an earlier call is still running
ConcurrentSetParam(device, vector, value, force, nowait) ==
    /\ Quiescent
    /\ Len(ops) < MaxCalls
    /\ Commit(setParam(World, device, vector, value, force, nowait, FALSE))

\* a caller calls pulseParam, possibly while an earlier call is still running
ConcurrentPulseParam(device, vector, prop) ==
    /\ Quiescent
    /\ Len(ops) < MaxCalls
    /\ Commit(pulseStart(World, device, vector, prop))

\* a call resumes after the await it is parked at
OpResume(i) ==
    /\ nextTick = <<>>
    /\ OpRunnable(i)
    /\ Commit(opResume(World, i))

\* the caller cancels the token of a call
OpCancel(i) ==
    /\ Quiescent
    /\ ops[i].result = "running"
    /\ ~ops[i].cancelled
    /\ Commit(opCancel(World, i))

\* the caller cancels the token of a call that has ended
OpCancelAfterExit(i) ==
    /\ Quiescent
    /\ ops[i].result # "running"
    /\ ~ops[i].cancelled
    /\ Commit(opCancelAfterExit(World, i))

\* waitForVectors times out
OpTimeout(i) ==
    /\ Quiescent
    /\ ops[i].result = "running"
    /\ ops[i].pc = "awaitVectors"
    /\ Commit(opTimeout(World, i))

Connections == 1..Len(conns)

NextTree ==
    \/ \E c \in Connections : SocketConnect(c)
    \/ \E c \in Connections, chunk \in Singles(TreeMsgs) \cup TreeChunks :
          \E now \in IF HasNote(chunk) THEN Clock ELSE {0} :
              SocketData(c, chunk, now)
    \/ \E c \in Connections : SocketClose(c)
    \/ NextTickRun
    \/ LifecycleDead
    \/ LifecycleRestart

SpecTree == Init /\ [][NextTree]_vars

\* what the server sends during the supervisor's runs
SupervisorChunks ==
    CoreChunks \cup {<<DefConnection("On")>>,
                     <<SetMsg("CCD", "V", "Busy", <<Child("P", "On")>>)>>,
                     <<DelMsg("CCD", FALSE, "")>>}

\* the supervisor alone, with the scheduling of Node.js: a queued nextTick
\* callback runs, the continuation of a settled await runs, the timer of
\* Sleep fires
NextSupervisor ==
    \/ \E c \in Connections : SocketConnect(c)
    \/ \E c \in Connections, chunk \in SupervisorChunks : SocketData(c, chunk, 0)
    \/ \E c \in Connections : SocketClose(c)
    \/ NextTickRun
    \/ LifecycleDead
    \/ LifecycleRestart

SpecSupervisor ==
    /\ Init
    /\ [][NextSupervisor]_vars
    /\ WF_vars(NextTickRun)
    /\ WF_vars(LifecycleDead)
    /\ WF_vars(LifecycleRestart)

NextWait ==
    \/ \E c \in Connections : SocketConnect(c)
    \/ \E c \in Connections, chunk \in Singles(CoreMsgs) \cup CoreChunks :
          \E now \in IF HasNote(chunk) THEN Clock ELSE {0} :
              SocketData(c, chunk, now)
    \/ \E c \in Connections : SocketClose(c)
    \/ NextTickRun
    \/ LifecycleDead
    \/ LifecycleRestart
    \/ \E c \in Connections, pred \in UserPreds, allow \in BOOLEAN :
          UserWait(c, pred, allow)
    \/ \E id \in DOMAIN waits : UserCancel(id)

SpecWait == Init /\ [][NextWait]_vars

NextPulse ==
    \/ \E c \in Connections : SocketConnect(c)
    \/ \E c \in Connections, chunk \in Singles(CoreMsgs) \cup CoreChunks :
          \E now \in IF HasNote(chunk) THEN Clock ELSE {0} :
              SocketData(c, chunk, now)
    \/ \E c \in Connections : SocketClose(c)
    \/ NextTickRun
    \/ LifecycleDead
    \/ LifecycleRestart
    \/ PulseParam("CCD", "V", "P")
    \/ \E i \in DOMAIN ops : OpResume(i)
    \/ \E i \in DOMAIN ops : OpCancel(i)
    \/ \E i \in DOMAIN ops : OpTimeout(i)

SpecPulse == Init /\ [][NextPulse]_vars

\* the messages of the runs of connectDevice
ConnectMsgs ==
    {DefConnection("Off"),
     SetMsg("CCD", "CONNECTION", "Ok", <<Child("CONNECT", "On"), Child("DISCONNECT", "Off")>>),
     SetMsg("CCD", "CONNECTION", "Alert", <<Child("CONNECT", "Off"), Child("DISCONNECT", "On")>>),
     DefMsg("CCD", "CONFIG_PROCESS", "Idle", <<Child("CONFIG_LOAD", "Off")>>),
     SetMsg("CCD", "CONFIG_PROCESS", "Ok", <<Child("CONFIG_LOAD", "Off")>>),
     DelMsg("CCD", TRUE, "CONNECTION")}

NextConnect ==
    \/ \E c \in Connections : SocketConnect(c)
    \/ \E c \in Connections, chunk \in Singles(ConnectMsgs) : SocketData(c, chunk, 0)
    \/ \E c \in Connections : SocketClose(c)
    \/ NextTickRun
    \/ LifecycleDead
    \/ LifecycleRestart
    \/ ConnectDevice("CCD")
    \/ \E i \in DOMAIN ops : OpResume(i)
    \/ \E i \in DOMAIN ops : OpCancel(i)
    \/ \E i \in DOMAIN ops : OpTimeout(i)

SpecConnect == Init /\ [][NextConnect]_vars

\* the messages of the runs of setParam: a vector of two children
SetParamMsgs ==
    {DefConnection("On"),
     DefMsg("CCD", "V", "Idle", <<Child("P", "Off"), Child("Q", "1")>>),
     SetMsg("CCD", "V", "Ok", <<Child("P", "On")>>),
     SetMsg("CCD", "V", "Busy", <<Child("P", "On"), Child("Q", "2")>>),
     SetMsg("CCD", "V", "Busy", <<Child("Q", "2")>>),
     DelMsg("CCD", TRUE, "V")}

\* the value sets callers hand to setParam
SetParamValues ==
    {[P |-> "Off"], [P |-> "On", Q |-> "null"], [Q |-> "1", P |-> "Off"],
     [Q |-> "2", P |-> "On"], [Q |-> "1", P |-> "On"]}

\* the lists callers hand to updateVector, in their order
UpdateChildren ==
    {<<>>, <<[name |-> "P", value |-> "On"]>>,
     <<[name |-> "Q", value |-> "2"], [name |-> "P", value |-> "Off"]>>}

NextSet ==
    \/ \E c \in Connections : SocketConnect(c)
    \/ \E c \in Connections, chunk \in Singles(SetParamMsgs) : SocketData(c, chunk, 0)
    \/ \E c \in Connections : SocketClose(c)
    \/ NextTickRun
    \/ LifecycleDead
    \/ LifecycleRestart
    \/ \E value \in SetParamValues, force, nowait, cancelator \in BOOLEAN :
          SetParam("CCD", "V", value, force, nowait, cancelator)
    \/ Activate("CCD", "V", "P")
    \/ \E children \in UpdateChildren : UpdateVector("CCD", "V", children)
    \/ \E i \in DOMAIN ops : OpResume(i)
    \/ \E i \in DOMAIN ops : OpCancel(i)
    \/ \E i \in DOMAIN ops : OpCancelAfterExit(i)
    \/ \E i \in DOMAIN ops : OpTimeout(i)

SpecSet == Init /\ [][NextSet]_vars

\* the transport: commands queued by callers before and after the connect
\* event, and by updateVector
NextQueue ==
    \/ \E c \in Connections : SocketConnect(c)
    \/ \E c \in Connections :
          SocketData(c, <<DefMsg("CCD", "V", "Idle", <<Child("P", "Off")>>)>>, 0)
    \/ \E c \in Connections : SocketClose(c)
    \/ NextTickRun
    \/ LifecycleDead
    \/ LifecycleRestart
    \/ \E c \in Connections, msg \in UserCommands : UserQueueMessage(c, msg)
    \/ UpdateVector("CCD", "V", <<[name |-> "P", value |-> "On"]>>)

SpecQueue == Init /\ [][NextQueue]_vars

\* what the server sends during the runs of waitForVectors: the two vectors
\* awaited, defined and deleted, one of them within a single chunk
VectorChunks ==
    {<<DefMsg("CCD", "V", "Idle", <<Child("P", "Off")>>)>>,
     <<DefMsg("CCD", "W", "Idle", <<Child("P", "Off")>>)>>,
     <<DelMsg("CCD", TRUE, "V")>>,
     <<DefMsg("CCD", "W", "Idle", <<Child("P", "Off")>>), DelMsg("CCD", TRUE, "W")>>}

\* the vector lists callers wait for
VectorLists == {<<>>, <<"V">>, <<"V", "W">>}

NextVectors ==
    \/ \E c \in Connections : SocketConnect(c)
    \/ \E c \in Connections, chunk \in VectorChunks : SocketData(c, chunk, 0)
    \/ \E c \in Connections : SocketClose(c)
    \/ NextTickRun
    \/ LifecycleDead
    \/ LifecycleRestart
    \/ \E vectors \in VectorLists : WaitForVectors("CCD", vectors)
    \/ \E i \in DOMAIN ops : OpResume(i)
    \/ \E i \in DOMAIN ops : OpCancel(i)
    \/ \E i \in DOMAIN ops : OpTimeout(i)

SpecVectors == Init /\ [][NextVectors]_vars

\* what the server sends during the runs of the device guards: CONNECTION
\* defined with CONNECT "On" or "Off" or without a CONNECT child, updated to
\* Busy, to a CONNECT without value, deleted alone or with its device, and
\* another vector of the device
GuardMsgs ==
    {DefConnection("On"),
     DefConnection("Off"),
     DefMsg("CCD", "CONNECTION", "Idle", <<Child("DISCONNECT", "On")>>),
     DefMsg("CCD", "V", "Idle", <<Child("P", "Off")>>),
     SetMsg("CCD", "CONNECTION", "Busy", <<Child("CONNECT", "On")>>),
     SetMsg("CCD", "CONNECTION", "Busy", <<Child("CONNECT", "Off")>>),
     SetMsg("CCD", "CONNECTION", "Ok", <<[name |-> "CONNECT", hasValue |-> FALSE, value |-> ""]>>),
     DelMsg("CCD", TRUE, "CONNECTION"),
     DelMsg("CCD", FALSE, "")}

NextGuards ==
    \/ \E c \in Connections : SocketConnect(c)
    \/ \E c \in Connections, chunk \in Singles(GuardMsgs) : SocketData(c, chunk, 0)
    \/ \E c \in Connections : SocketClose(c)
    \/ NextTickRun
    \/ LifecycleDead
    \/ LifecycleRestart
    \/ CheckDeviceConnected("CCD")
    \/ ConnectDevice("CCD")
    \/ DisconnectDevice("CCD")
    \/ \E i \in DOMAIN ops : OpResume(i)
    \/ \E i \in DOMAIN ops : OpCancel(i)
    \/ \E i \in DOMAIN ops : OpTimeout(i)

SpecGuards == Init /\ [][NextGuards]_vars

\* what the server sends during the runs of all the operations together
OrchestrationMsgs ==
    {DefConnection("On"),
     DefConnection("Off"),
     DefMsg("CCD", "V", "Idle", <<Child("P", "Off")>>),
     SetMsg("CCD", "V", "Busy", <<Child("P", "On")>>),
     SetMsg("CCD", "V", "Ok", <<Child("P", "On")>>)}

NextOrchestration ==
    \/ \E c \in Connections : SocketConnect(c)
    \/ \E c \in Connections, chunk \in Singles(OrchestrationMsgs) :
          SocketData(c, chunk, 0)
    \/ \E c \in Connections : SocketClose(c)
    \/ NextTickRun
    \/ LifecycleDead
    \/ LifecycleRestart
    \/ ConnectDevice("CCD")
    \/ DisconnectDevice("CCD")
    \/ UpdateVector("CCD", "V", <<[name |-> "P", value |-> "On"]>>)
    \/ \E nowait \in BOOLEAN :
          \/ SetParam("CCD", "V", [P |-> "On"], FALSE, nowait, FALSE)
          \/ SetParam("CCD", "CONNECTION", [CONNECT |-> "On"], FALSE, nowait, FALSE)
    \/ \E vector \in {"V", "CONNECTION"} : Activate("CCD", vector, "P")
    \/ \E vector \in {"V", "CONNECTION"} : PulseParam("CCD", vector, "P")
    \/ WaitForVectors("CCD", <<"V">>)
    \/ \E i \in DOMAIN ops : OpResume(i)
    \/ \E i \in DOMAIN ops : OpCancel(i)
    \/ \E i \in DOMAIN ops : OpTimeout(i)

SpecOrchestration == Init /\ [][NextOrchestration]_vars

\* what the server sends during the runs of concurrent calls on one vector
BusyMsgs ==
    {DefConnection("On"),
     DefMsg("CCD", "V", "Idle", <<Child("P", "Off")>>),
     SetMsg("CCD", "V", "Busy", <<Child("P", "On")>>),
     SetMsg("CCD", "V", "Ok", <<Child("P", "On")>>)}

NextBusy ==
    \/ \E c \in Connections : SocketConnect(c)
    \/ \E c \in Connections, chunk \in Singles(BusyMsgs) : SocketData(c, chunk, 0)
    \/ NextTickRun
    \/ \E value \in {[P |-> "On"], [P |-> "Off"]}, nowait \in BOOLEAN :
          ConcurrentSetParam("CCD", "V", value, FALSE, nowait)
    \/ ConcurrentPulseParam("CCD", "V", "P")
    \/ \E i \in DOMAIN ops : OpResume(i)
    \/ \E i \in DOMAIN ops : OpCancel(i)
    \/ \E i \in DOMAIN ops : OpTimeout(i)

SpecBusy == Init /\ [][NextBusy]_vars

\* the messages of the reducer's runs, with an update that names an unknown
\* child before a known one and the deletion of the device of two vectors
ReducerMsgs ==
    TreeMsgs \cup {SetMsg("CCD", "V", "Idle", <<Child("R", "3"), Child("Q", "7")>>),
                   DelMsg("CCD", FALSE, "")}

NextReducer ==
    \/ \E c \in Connections : SocketConnect(c)
    \/ \E c \in Connections, chunk \in Singles(ReducerMsgs) \cup TreeChunks :
          \E now \in IF HasNote(chunk) THEN Clock ELSE {0} :
              SocketData(c, chunk, now)
    \/ \E c \in Connections : SocketClose(c)
    \/ NextTickRun
    \/ LifecycleDead
    \/ LifecycleRestart
    \/ \E c \in Connections :
          UserWait(c, Pred("exists", "CCD", "", "", <<"V">>), FALSE)

SpecReducer == Init /\ [][NextReducer]_vars

\* what the server sends during the runs of the note delivery
NoteChunks ==
    {<<NoteMsg>>,
     <<DefMsg("CCD", "V", "Idle", <<Child("P", "Off")>>)>>,
     <<DefMsg("CCD", "V", "Idle", <<Child("P", "Off")>>), NoteMsg>>}

NextNotes ==
    \/ \E c \in Connections : SocketConnect(c)
    \/ \E c \in Connections, chunk \in NoteChunks, now \in Clock :
          SocketData(c, chunk, now)
    \/ \E c \in Connections : SocketClose(c)
    \/ NextTickRun
    \/ LifecycleDead
    \/ LifecycleRestart
    \/ \E c \in Connections, listener \in UserMessageListeners :
          UserAddMessageListener(c, listener)

SpecNotes == Init /\ [][NextNotes]_vars

DispatchChunks ==
    {<<DefMsg("CCD", "V", "Idle", <<Child("P", "Off")>>)>>} \cup CoreChunks

\* the listener dispatch with listeners of callers that remove listeners
NextDispatch ==
    \/ \E c \in Connections : SocketConnect(c)
    \/ \E c \in Connections, chunk \in DispatchChunks : SocketData(c, chunk, 0)
    \/ \E c \in Connections : SocketClose(c)
    \/ NextTickRun
    \/ LifecycleDead
    \/ LifecycleRestart
    \/ \E c \in Connections, behaviour \in UserListeners :
          UserAddListener(c, behaviour)
    \/ \E c \in Connections :
          UserWait(c, Pred("exists", "CCD", "", "", <<"V">>), FALSE)

SpecDispatch == Init /\ [][NextDispatch]_vars

\* the listener dispatch with a listener of a caller that throws
NextThrow ==
    \/ \E c \in Connections : SocketConnect(c)
    \/ \E c \in Connections, chunk \in DispatchChunks : SocketData(c, chunk, 0)
    \/ \E c \in Connections : SocketClose(c)
    \/ NextTickRun
    \/ LifecycleDead
    \/ LifecycleRestart
    \/ \E c \in Connections, behaviour \in {"keeps", "throws"} :
          UserAddListener(c, behaviour)

SpecThrow == Init /\ [][NextThrow]_vars

\* the message listener of the lifecycle receives a note: addMessage, then
\* cleanupMessages
NoteReceived(now) ==
    /\ hist.added < MaxAdds
    /\ Commit(cleanupMessages(addMessage(World, now)))

NextLog == \E now \in Clock : NoteReceived(now)

SpecLog == Init /\ [][NextLog]_vars

-----------------------------------------------------------------------------
(* Preferred-device selector (IndiManager.createMultiPreferredDeviceSelector) *)

\* device names a selector may hold
Devices == {"a", "b", "c"}

\* longest list of available devices
MaxAvail == 2

\* updates run on one selector
MaxUpdates == 2

AvailableLists ==
    UNION {[1..n -> Devices] : n \in 0..MaxAvail}

\* params.set(id, p): a field passed as undefined is left as it was
set(w, p) ==
    [w EXCEPT !.sel.current = IF p.current = "undefined" THEN @ ELSE p.current,
              !.sel.prefered = IF p.prefered = "undefined" THEN @ ELSE p.prefered,
              !.sel.sets = @ + 1,
              !.sel.total = @ + 1]

\* update without the fall back to the prefered device
updateWithoutFallback(w) ==
    LET st == w.sel
        w0 == [w EXCEPT !.sel.sets = 0, !.sel.updates = @ + 1]
    IN  IF ~st.present THEN w0
        ELSE
        LET gone == st.current # "null" /\ IndexOf(st.available, st.current) = 0
            newCurrent == IF gone THEN "null" ELSE "undefined"
            newPrefered ==
                IF st.current # "null" /\ ~gone /\ st.prefered # st.current
                THEN st.current ELSE "undefined"
        IN  IF newCurrent # "undefined" \/ newPrefered # "undefined"
            THEN set(w0, [current |-> newCurrent, prefered |-> newPrefered])
            ELSE w0

\* update(id) of createMultiPreferredDeviceSelector
update(w) ==
    LET st == w.sel
        w0 == [w EXCEPT !.sel.sets = 0, !.sel.updates = @ + 1]
    IN  IF ~st.present THEN w0
        ELSE
        LET gone == st.current # "null" /\ IndexOf(st.available, st.current) = 0
            current1 == IF gone THEN "null" ELSE st.current
            newCurrent1 == IF gone THEN "null" ELSE "undefined"
            newPrefered ==
                IF st.current # "null" /\ ~gone /\ st.prefered # st.current
                THEN st.current ELSE "undefined"
            fallback == /\ current1 = "null"
                        /\ st.prefered # "null"
                        /\ IndexOf(st.available, st.prefered) # 0
            newCurrent == IF fallback THEN st.prefered ELSE newCurrent1
        IN  IF newCurrent # "undefined" \/ newPrefered # "undefined"
            THEN set(w0, [current |-> newCurrent, prefered |-> newPrefered])
            ELSE w0

\* the synchronizer callback runs update for the selector
SelectorUpdate ==
    /\ selector.updates < MaxUpdates
    /\ Commit(update(World))

InitSelector ==
    \/ Init
    \/ \E available \in AvailableLists, current, prefered \in Devices \cup {"null"} :
          InitTo([lifecycleStart(World0) EXCEPT
                    !.sel = [Selector0 EXCEPT !.present = TRUE,
                                              !.available = available,
                                              !.current = current,
                                              !.prefered = prefered]])

NextSelector == SelectorUpdate

SpecSelector == InitSelector /\ [][NextSelector]_vars

-----------------------------------------------------------------------------
(* Properties of the reducer and of the supervisor, under SpecTree *)

AllVectors == {<<d, v>> \in {"CCD", "Mount"} \X {"CONNECTION", "V"} :
                  exists(deviceTree, d, v)}

\* C1: the global revision never decreases; it strictly increases on the
\* socket's connect event, on its close event and by one for every message
\* applied; every stamp on a vector is at most the counter, and a vector
\* stamped by a step gets a stamp above the counter before the step, hence
\* above every stamp made earlier on any vector
RevisionStrictlyIncreases ==
    [][/\ globalRevisionId' >= globalRevisionId
       /\ \A c \in DOMAIN conns :
            /\ (conns[c].socket = "opening" /\ conns'[c].socket = "open")
                  => globalRevisionId' > globalRevisionId
            /\ (conns[c].socket # "closed" /\ conns'[c].socket = "closed")
                  => globalRevisionId' > globalRevisionId
            /\ \A chunk \in Singles(TreeMsgs) \cup TreeChunks, now \in Clock :
                  SocketData(c, chunk, now)
                      => globalRevisionId' = globalRevisionId + Len(chunk)
       /\ \A d \in DOMAIN deviceTree : \A v \in DOMAIN deviceTree[d] :
            deviceTree[d][v].rev <= globalRevisionId
       /\ \A d \in DOMAIN deviceTree' : \A v \in DOMAIN deviceTree'[d] :
            (~exists(deviceTree, d, v) \/ deviceTree[d][v] # deviceTree'[d][v])
                => deviceTree'[d][v].rev > globalRevisionId
      ]_vars

C1Witness ==
    /\ globalRevisionId >= 4
    /\ \E p, q \in AllVectors :
          deviceTree[p[1]][p[2]].rev + 2 <= deviceTree[q[1]][q[2]].rev
    /\ \E c \in DOMAIN conns : conns[c].dead

\* C2: the child keys of every vector of the tree are the child names of the
\* latest definition applied for it
ChildrenAreLatestDefinition ==
    \A d \in DOMAIN deviceTree : \A v \in DOMAIN deviceTree[d] :
        /\ has(hist.latestDef, <<d, v>>)
        /\ DOMAIN deviceTree[d][v].childs = hist.latestDef[<<d, v>>]

\* an update naming a child unknown to the vector has been applied
C2Witness ==
    /\ exists(deviceTree, "CCD", "V")
    /\ deviceTree["CCD"]["V"].state = "Ok"
    /\ DOMAIN deviceTree["CCD"]["V"].childs = {"Q"}

\* C4: once the close of the newest connection and the dispatch it schedules
\* are done the tree is empty, and an empty tree stays empty until a
\* definition is applied on an open connection
TreeEmptyAfterClose ==
    /\ [](\A c \in DOMAIN conns :
            (c = Len(conns) /\ conns[c].dead /\ nextTick = <<>>)
                => deviceTree = EmptyMap)
    /\ [][(deviceTree = EmptyMap /\ deviceTree' # EmptyMap)
            => \E c \in DOMAIN conns :
                  /\ conns[c].socket = "open"
                  /\ ~conns[c].dead
                  /\ c = Len(conns)
                  /\ globalRevisionId' > globalRevisionId
                  /\ hist'.defs > hist.defs
          ]_vars

C4Witness ==
    /\ conns[Len(conns)].dead
    /\ nextTick = <<>>
    /\ hist.closedWith > 0
    /\ deviceTree = EmptyMap

\* C18: at most one connection is not dead; a connection is created only
\* when every earlier one is dead, the manager's connection reference is
\* reset and the lifecycle is in its sleep; and every connection that dies
\* is followed by a new one (as long as the bound on connections allows)
OneConnectionAtATime ==
    /\ [](Cardinality({c \in DOMAIN conns : ~conns[c].dead}) <= 1)
    /\ [][Len(conns') > Len(conns)
            => /\ Len(conns') = Len(conns) + 1
               /\ \A c \in DOMAIN conns : conns[c].dead
               /\ connection = 0
               /\ lifecycle.pc = "sleep"
               /\ connection' = Len(conns')
               /\ ~conns'[connection'].dead
         ]_vars
    /\ \A c \in 1..(MaxConns - 1) :
          (c \in DOMAIN conns /\ conns[c].dead) ~> (Len(conns) > c)

\* a second connection is open after the first one died
C18Witness ==
    /\ Len(conns) = 2
    /\ conns[1].dead
    /\ conns[2].socket = "open"
    /\ connection = 2

\* C12: a step that receives messages (the revision grows) and changes the
\* tree leaves a listener dispatch scheduled
MutationSchedulesDispatch ==
    [][(/\ nextTick = <<>>
        /\ globalRevisionId' > globalRevisionId
        /\ deviceTree' # deviceTree)
          => nextTick' # <<>>
      ]_vars

\* the published status names the state of the manager's current connection,
\* and the published tree is empty unless the status is "connected"
StatusAgrees(st, cs, cur, tree) ==
    /\ st = "connected" <=> (cur # 0 /\ cs[cur].connected)
    /\ st = "connecting" <=> (cur # 0 /\ ~cs[cur].connected)
    /\ st = "error" <=> cur = 0
    /\ st # "connected" => tree = EmptyMap

\* the state a dispatch pass leaves has the status agree with the connection
StatusAgreesAfterDispatch ==
    [][(nextTick # <<>> /\ nextTick' = Tail(nextTick))
        => StatusAgrees(status', conns', connection', deviceTree')]_vars

\* C39: after every dispatch pass the status agrees with the connection, and
\* the connect event of the current connection makes the status "connected"
\* without a message of the server: the event leaves the status "connected"
\* or a dispatch scheduled
StatusFollowsConnection ==
    /\ StatusAgreesAfterDispatch
    /\ [][\A c \in DOMAIN conns :
            (~conns[c].connected /\ conns'[c].connected /\ connection' = c)
                => (status' = "connected" \/ nextTick' # <<>>)
         ]_vars

-----------------------------------------------------------------------------
(* Properties of the wait engine, under SpecWait *)

Listening(id) ==
    \E c \in DOMAIN conns :
        WaitListener(id) \in Range(conns[c].listeners) \cup Range(conns[c].checkingListeners)

\* C3: once a close and the dispatch it schedules are done, every wait started
\* with allowDisconnectionState false that was pending at the close has failed
\* with the disconnection error
CloseFailsPendingWaits ==
    \A id \in DOMAIN waits :
        (/\ id \in hist.pendingAtClose
         /\ ~waits[id].allow
         /\ nextTick = <<>>)
            => (waits[id].outcome = "failed" /\ waits[id].error = "disconnected")

\* the device has a CONNECTION vector whose CONNECT child is "On"
ConnectIsOn(tree, device) ==
    /\ device \in DOMAIN tree
    /\ "CONNECTION" \in DOMAIN tree[device]
    /\ "CONNECT" \in DOMAIN tree[device]["CONNECTION"].childs
    /\ tree[device]["CONNECTION"].childs["CONNECT"] = "On"

\* C21: a call of checkDeviceConnected returns exactly when CONNECTION exists
\* with CONNECT "On"; otherwise it throws, "Device is not connected" when the
\* manager has a connection and "Indi server not connected" when it has
\* none; it changes neither the tree nor any connection (queue, writes,
\* listeners) and schedules nothing
CheckDeviceConnectedIffOn ==
    [][\A i \in DOMAIN ops' :
          (i \notin DOMAIN ops /\ ops'[i].kind = "check")
          => /\ ops'[i].result = "resolved" <=> ConnectIsOn(deviceTree, ops'[i].device)
             /\ ops'[i].result = "failed" <=> ~ConnectIsOn(deviceTree, ops'[i].device)
             /\ ops'[i].result = "failed"
                  => ops'[i].error = (IF connection = 0 THEN "noConnection"
                                                       ELSE "notConnected")
             /\ deviceTree' = deviceTree
             /\ conns' = conns
             /\ nextTick' = nextTick
             /\ waits' = waits
      ]_vars

\* a call that returned, on a device whose CONNECTION is Busy
C21Witness ==
    \E i \in DOMAIN ops :
        /\ ops[i].kind = "check"
        /\ ops[i].result = "resolved"
        /\ deviceTree["CCD"]["CONNECTION"].state = "Busy"

\* C22: connectDevice and disconnectDevice called while CONNECTION is Busy
\* throw "Connection already pending"; called while it is not Busy and CONNECT
\* is "On" (connectDevice) or "Off" (disconnectDevice) they return in the
\* call; in all these cases no connection changes (nothing is queued or
\* written), the tree is unchanged and no wait is started
ConnectionGuards ==
    [][\A i \in DOMAIN ops' :
          (/\ i \notin DOMAIN ops
           /\ ops'[i].kind \in {"connect", "disconnect"}
           /\ exists(deviceTree, ops'[i].device, "CONNECTION"))
          => LET vec == deviceTree[ops'[i].device]["CONNECTION"]
                 already == IF ops'[i].kind = "connect" THEN "On" ELSE "Off"
             IN  /\ vec.state = "Busy"
                      => /\ ops'[i].result = "failed"
                         /\ ops'[i].error = "alreadyPending"
                         /\ ops'[i].issued = <<>>
                         /\ conns' = conns /\ deviceTree' = deviceTree
                         /\ waits' = waits
                 /\ (/\ vec.state # "Busy"
                     /\ "CONNECT" \in DOMAIN vec.childs
                     /\ vec.childs["CONNECT"] = already)
                      => /\ ops'[i].result = "resolved"
                         /\ ops'[i].issued = <<>>
                         /\ conns' = conns /\ deviceTree' = deviceTree
                         /\ waits' = waits
      ]_vars

\* a disconnectDevice refused on a Busy CONNECTION whose CONNECT is "On"
C22Witness ==
    \E i \in DOMAIN ops :
        /\ ops[i].kind = "disconnect"
        /\ ops[i].error = "alreadyPending"
        /\ getState(deviceTree, "CCD", "CONNECTION") = "Busy"
        /\ getPropertyValueIfExists(deviceTree, "CCD", "CONNECTION", "CONNECT") = "On"

\* C23: a call of any of the seven operations made while the manager has
\* no connection throws "Indi server not connected" in the call, issues no
\* command, and leaves the connections, the tree, the waits and the nextTick
\* queue as they were
NoConnectionFails ==
    [][\A i \in DOMAIN ops' :
          (i \notin DOMAIN ops /\ connection = 0)
          => /\ ops'[i].kind \in {"connect", "disconnect", "update", "set",
                                  "activate", "pulse", "waitForVectors"}
             /\ ops'[i].result = "failed"
             /\ ops'[i].error = "noConnection"
             /\ ops'[i].issued = <<>>
             /\ ops'[i].wait = 0
             /\ conns' = conns
             /\ deviceTree' = deviceTree
             /\ waits' = waits
             /\ nextTick' = nextTick
      ]_vars

\* an updateVector call that failed between the death of the first
\* connection and the creation of the second
C23Witness ==
    /\ connection = 0
    /\ Len(conns) = 1 /\ conns[1].dead
    /\ lifecycle.pc = "sleep"
    /\ \E i \in DOMAIN ops :
          /\ ops[i].kind = "update"
          /\ ops[i].result = "failed"
          /\ ops[i].error = "noConnection"

\* the children of message m that name child k
Listed(m, k) ==
    IF m.hasChildren THEN {i \in 1..Len(m.children) : m.children[i].name = k} ELSE {}

\* the value the last child of message m that names k gives it
ListedValue(m, k) ==
    LET i == CHOOSE i \in Listed(m, k) : \A j \in Listed(m, k) : j <= i
    IN  IF m.children[i].hasValue THEN m.children[i].value ELSE ""

\* every vector other than device/name is the same in both trees
OthersUnchanged(old, new, device, name) ==
    /\ DOMAIN new = DOMAIN old
    /\ \A d \in DOMAIN old :
          /\ DOMAIN new[d] = DOMAIN old[d]
          /\ \A v \in DOMAIN old[d] :
                (d # device \/ v # name) => new[d][v] = old[d][v]

\* C24: the reception of an update for a vector of the tree sets the
\* vector's state, timeout (0 when the message has none) and timestamp to
\* the message's, its message when the update has one; every child of the
\* vector the update names takes the value given (the empty string when none
\* is given), every other child keeps its value, no child is added for an
\* unknown name, and every other vector is unchanged
UpdateOverwritesListed ==
    [][\A c \in Connections, m \in ReducerMsgs :
          (/\ m.kind = "set"
           /\ exists(deviceTree, m.device, m.name)
           /\ SocketData(c, <<m>>, 0))
          => LET old == deviceTree[m.device][m.name]
                 new == deviceTree'[m.device][m.name]
             IN  /\ new.state = m.state
                 /\ new.timeout = (IF m.hasTimeout THEN m.timeout ELSE 0)
                 /\ new.timestamp = m.timestamp
                 /\ new.message = (IF m.message # "undefined" THEN m.message
                                                              ELSE old.message)
                 /\ new.type = old.type
                 /\ new.childNames = old.childNames
                 /\ DOMAIN new.childs = DOMAIN old.childs
                 /\ \A k \in DOMAIN old.childs :
                       new.childs[k] = (IF Listed(m, k) # {} THEN ListedValue(m, k)
                                                            ELSE old.childs[k])
                 /\ OthersUnchanged(deviceTree, deviceTree', m.device, m.name)
      ]_vars

\* the vector CCD/V after the update that names the unknown child R and then
\* Q: Q has the new value, P the defined one, and there is no R
C24Witness ==
    /\ exists(deviceTree, "CCD", "V")
    /\ deviceTree["CCD"]["V"].state = "Idle"
    /\ deviceTree["CCD"]["V"].timeout = 0
    /\ deviceTree["CCD"]["V"].childs = [P |-> "Off", Q |-> "7"]

\* message m is an update for a device or a vector the tree does not have,
\* or a deletion that names such a device or vector
UnknownTarget(tree, m) ==
    \/ /\ m.kind = "set"
       /\ ~exists(tree, m.device, m.name)
    \/ /\ m.kind = "del"
       /\ \/ m.device \notin DOMAIN tree
          \/ m.hasName /\ m.name \notin DOMAIN tree[m.device]

\* C25: the reception of an update or a deletion whose target is unknown
\* leaves the tree as it was, and with it the status, every wait (none
\* fails), the connection (it stays open, no listener is lost) and the
\* nextTick queue; only the revision counter moves
UnknownTargetIsAbsorbed ==
    [][\A c \in Connections, m \in ReducerMsgs :
          (UnknownTarget(deviceTree, m) /\ SocketData(c, <<m>>, 0))
          => /\ deviceTree' = deviceTree
             /\ waits' = waits
             /\ ops' = ops
             /\ conns' = conns
             /\ nextTick' = nextTick
             /\ status' = status
             /\ connection' = connection
             /\ globalRevisionId' = globalRevisionId + 1
      ]_vars

\* a wait for CCD/V still pending on a connected connection that has
\* received three messages, none of which defined a device
C25Witness ==
    /\ DOMAIN deviceTree = {}
    /\ globalRevisionId >= 4
    /\ hist.defs = 0 /\ hist.added = 0
    /\ Len(conns) = 1
    /\ nextTick = <<>>
    /\ \E id \in DOMAIN waits :
          /\ waits[id].owner = "user"
          /\ waits[id].outcome = "pending"
          /\ conns[waits[id].conn].connected
          /\ Listening(id)

\* C26: the reception of a deletion that names a vector of the tree removes
\* that vector and nothing else (its device stays); the reception of a
\* deletion without vector name for a device of the tree removes the device
\* with all its vectors and nothing else; and a vector that is not in the
\* tree gets into it only by the reception of a definition for it
DeletionRemovesExactly ==
    /\ [][\A c \in Connections, m \in ReducerMsgs :
            (/\ m.kind = "del"
             /\ ~UnknownTarget(deviceTree, m)
             /\ SocketData(c, <<m>>, 0))
            => IF m.hasName
               THEN /\ DOMAIN deviceTree' = DOMAIN deviceTree
                    /\ DOMAIN deviceTree'[m.device]
                          = DOMAIN deviceTree[m.device] \ {m.name}
                    /\ ~exists(deviceTree', m.device, m.name)
                    /\ \A d \in DOMAIN deviceTree' : \A v \in DOMAIN deviceTree'[d] :
                          deviceTree'[d][v] = deviceTree[d][v]
                    /\ \A d \in DOMAIN deviceTree \ {m.device} :
                          deviceTree'[d] = deviceTree[d]
               ELSE /\ DOMAIN deviceTree' = DOMAIN deviceTree \ {m.device}
                    /\ \A v \in DOMAIN deviceTree[m.device] :
                          ~exists(deviceTree', m.device, v)
                    /\ \A d \in DOMAIN deviceTree' : deviceTree'[d] = deviceTree[d]
       ]_vars
    /\ [][\A d \in {"CCD", "Mount"}, v \in {"CONNECTION", "V"} :
            (~exists(deviceTree, d, v) /\ exists(deviceTree', d, v))
            => \E c \in Connections, chunk \in Singles(ReducerMsgs) \cup TreeChunks :
                  /\ SocketData(c, chunk, 0)
                  /\ \E i \in 1..Len(chunk) :
                        /\ chunk[i].kind = "def"
                        /\ chunk[i].device = d
                        /\ chunk[i].name = v
       ]_vars

\* the device CCD, defined with two vectors, has been deleted as a whole
\* and the device Mount is still there with its vector
C26Witness ==
    /\ DOMAIN deviceTree = {"Mount"}
    /\ exists(deviceTree, "Mount", "V")
    /\ has(hist.latestDef, <<"CCD", "CONNECTION">>)
    /\ has(hist.latestDef, <<"CCD", "V">>)
    /\ nextTick = <<>>

\* C27: the reception of a broadcast note calls the message listeners of
\* the connection, each once, in the order of their registration, those
\* after a listener that throws included; the lifecycle's listener logs the
\* note once; the tree, the waits, the listener lists and the nextTick
\* queue are as before (no dispatch of the mutation listeners is scheduled)
NoteDeliveredToAll ==
    [][\A c \in Connections, now \in Clock :
          SocketData(c, <<NoteMsg>>, now)
          => /\ hist'.delivered = conns[c].messageListeners
             /\ hist'.added = hist.added + 1
             /\ deviceTree' = deviceTree
             /\ waits' = waits
             /\ nextTick' = nextTick
             /\ conns' = conns
             /\ status' = status
      ]_vars

\* a note delivered to three listeners, the one that throws before the one
\* that returns
C27Witness ==
    /\ hist.delivered = <<"addMessage", "throws", "logs">>
    /\ hist.added = 1
    /\ nextTick = <<>>

\* the vector is not CONNECTION and the device's CONNECT is not "On"
DeviceOff(tree, device, vector) ==
    vector # "CONNECTION" /\ ~ConnectIsOn(tree, device)

\* the commands call i of the next state has issued before this step
IssuedBefore(i) == IF i \in DOMAIN ops THEN ops[i].issued ELSE <<>>

\* C28, as stated: setParam, activate and pulseParam on a vector other than
\* CONNECTION issue no command in a step taken while CONNECT is not "On"
NotConnectedNeverIssues ==
    [][\A i \in DOMAIN ops' :
          (/\ ops'[i].kind \in {"set", "activate", "pulse"}
           /\ DeviceOff(deviceTree, ops'[i].device, ops'[i].vector))
          => ops'[i].issued = IssuedBefore(i)
      ]_vars

\* C28, amended: a call made while CONNECT is not "On" throws the
\* not-connected error at once; a call that resumes after waitForVectors or
\* after the idle wait while CONNECT is not "On" issues nothing and throws
\* it, or fails by it at the registration of its next wait; a predicate
\* dispatched while CONNECT is not "On" fails its wait with it, and setParam
\* and activate then end with it; the one command issued while CONNECT is
\* not "On" is the "Off" of the finally block of pulseParam, written after
\* the failure of its busy wait; a call on CONNECTION never gets the error
NotConnectedFailsBeforeIssue ==
    /\ [](\A i \in DOMAIN ops :
            (ops[i].kind \in {"set", "activate", "pulse"} /\ ops[i].vector = "CONNECTION")
            => ops[i].error # "notConnected")
    /\ [][\A i \in DOMAIN ops' :
            (/\ ops'[i].kind \in {"set", "activate", "pulse"}
             /\ DeviceOff(deviceTree, ops'[i].device, ops'[i].vector))
            => /\ ops'[i].issued # IssuedBefore(i)
                    => /\ ops'[i].kind = "pulse"
                       /\ ops[i].pc = "awaitBusy"
                       /\ waits[ops[i].wait].error = "notConnected"
                       /\ ops'[i].issued = Append(ops[i].issued, "Off")
               \* the call is made
               /\ (i \notin DOMAIN ops /\ connection # 0)
                    => /\ ops'[i].result = "failed"
                       /\ ops'[i].error = "notConnected"
                       /\ conns' = conns /\ waits' = waits
               \* getVec() after waitForVectors or after the idle wait
               /\ (/\ i \in DOMAIN ops
                   /\ ops[i].result = "running"
                   /\ ops[i].pc \in {"awaitVectors", "awaitIdle"}
                   /\ waits[ops[i].wait].outcome = "resolved"
                   /\ ops'[i] # ops[i])
                    => /\ conns' = conns
                       /\ \/ ops'[i].result = "failed" /\ ops'[i].error = "notConnected"
                          \/ /\ ops'[i].pc = "awaitIdle"
                             /\ waits'[ops'[i].wait].outcome = "failed"
                             /\ waits'[ops'[i].wait].error = "notConnected"
               \* getVec() inside a predicate, at a dispatch
               /\ (/\ i \in DOMAIN ops
                   /\ ops[i].pc \in {"awaitIdle", "awaitDone", "awaitOn", "awaitBusy"}
                   /\ waits[ops[i].wait].outcome = "pending"
                   /\ nextTick # <<>> /\ nextTick' = Tail(nextTick)
                   /\ WaitListener(ops[i].wait) \in Range(hist'.pass.invoked))
                    => /\ waits'[ops[i].wait].outcome = "failed"
                       /\ waits'[ops[i].wait].error = "notConnected"]_vars
    /\ [][\A i \in DOMAIN ops :
            \* the call resumes after a wait failed by the error
            (/\ ops[i].kind \in {"set", "activate", "pulse"}
             /\ ops[i].result = "running"
             /\ ops[i].pc \in {"awaitIdle", "awaitDone", "awaitOn"}
             /\ waits[ops[i].wait].error = "notConnected"
             /\ ops'[i] # ops[i])
            => /\ ops'[i].result = "failed"
               /\ ops'[i].error = "notConnected"
               /\ ops'[i].issued = ops[i].issued
               /\ conns' = conns]_vars

\* a pulseParam whose busy wait failed because CONNECT was no longer "On"
\* and which has written "Off" after that
C28Witness ==
    \E i \in DOMAIN ops :
        /\ ops[i].kind = "pulse"
        /\ ops[i].vector = "V"
        /\ ops[i].caught = "notConnected"
        /\ ops[i].issued = <<"On", "Off">>
        /\ ~ConnectIsOn(deviceTree, "CCD")

\* every vector of the list exists on the device
ExistsAll(tree, device, vectors) ==
    \A k \in 1..Len(vectors) : exists(tree, device, vectors[k])

\* C20: a waitForVectors call that is not cancelled returns exactly when
\* all its vectors exist when it is made or at a dispatch of its listener
\* before the timer fires; when the timer fires on the pending wait it
\* fails with the missing vector error; once it has ended, either way, its
\* wait has no listener left
WaitForVectorsOutcome ==
    /\ [](\A i \in DOMAIN ops :
            (ops[i].kind = "waitForVectors" /\ ops[i].wait # 0)
            => LET r == waits[ops[i].wait]
               IN  /\ ops[i].result = "resolved" => r.outcome = "resolved"
                   /\ r.outcome = "resolved" => ops[i].result # "failed"
                   /\ (ops[i].result = "failed" /\ ~ops[i].cancelled)
                        => (ops[i].error = "missingVector" /\ r.outcome = "cancelled")
                   /\ ops[i].result # "running" => ~Listening(ops[i].wait)
                   /\ r.outcome # "pending" => ~Listening(ops[i].wait))
    /\ [][\A i \in DOMAIN ops' :
            (ops'[i].kind = "waitForVectors" /\ ops'[i].wait # 0)
            => LET id == ops'[i].wait
                   o == ops'[i]
               IN  \* the call is made
                   /\ i \notin DOMAIN ops
                        => /\ waits'[id].outcome = "resolved"
                                <=> ExistsAll(deviceTree, o.device, o.vectors)
                           /\ waits'[id].outcome = "pending"
                                <=> ~ExistsAll(deviceTree, o.device, o.vectors)
                           /\ waits'[id].outcome = "pending"
                                <=> WaitListener(id) \in Range(conns'[o.conn].listeners)
                   \* its listener is dispatched
                   /\ (/\ i \in DOMAIN ops
                       /\ waits[id].outcome = "pending"
                       /\ nextTick # <<>> /\ nextTick' = Tail(nextTick)
                       /\ WaitListener(id) \in Range(hist'.pass.invoked))
                        => (waits'[id].outcome = "resolved"
                                <=> ExistsAll(deviceTree, o.device, o.vectors))
                   \* the wait resolves at the call or at a dispatch only
                   /\ (/\ i \in DOMAIN ops
                       /\ waits[id].outcome = "pending"
                       /\ waits'[id].outcome = "resolved")
                        => WaitListener(id) \in Range(hist'.pass.invoked)
                   \* the timer fires
                   /\ (/\ i \in DOMAIN ops
                       /\ ops[i].result = "running"
                       /\ o.error = "missingVector")
                        => /\ waits[id].outcome = "pending"
                           /\ ~ExistsAll(deviceTree, o.device, o.vectors)
                              \/ conns[o.conn].dead
                           /\ o.result = "failed"
      ]_vars

\* a call for two vectors that has returned, after its listener had been
\* registered and dispatched
C20Witness ==
    \E i \in DOMAIN ops :
        /\ ops[i].kind = "waitForVectors"
        /\ ops[i].vectors = <<"V", "W">>
        /\ ops[i].result = "resolved"
        /\ waits[ops[i].wait].atStart = "false"
        /\ ~Listening(ops[i].wait)

\* C19: a wait started on a dead connection with allowDisconnectionState
\* false fails in the starting call with the disconnection error, without
\* evaluating its predicate and without touching any listener list; started
\* with allowDisconnectionState true it evaluates the predicate and follows
\* its value: resolved if true, failed if it throws, listening if false
WaitOnDeadConnection ==
    [][(Len(waits') = Len(waits) + 1 /\ waits'[Len(waits')].deadAtStart)
        => LET new == waits'[Len(waits')]
           IN  /\ ~new.allow
                    => /\ new.outcome = "failed"
                       /\ new.error = "disconnected"
                       /\ new.calls = 1
                       /\ ~new.evaluated
                       /\ ~new.listener
                       /\ nextTick' = nextTick
                       /\ \A c \in DOMAIN conns :
                              conns'[c].listeners = conns[c].listeners
               /\ new.allow
                    => /\ new.evaluated
                       /\ new.atStart = "true"
                            => (new.outcome = "resolved" /\ ~new.listener)
                       /\ new.atStart = "throw"
                            => /\ new.outcome = "failed"
                               /\ new.error \in {"notConnected", "notFound"}
                       /\ new.atStart = "false"
                            => /\ new.outcome = "pending"
                               /\ new.listener
                               /\ conns'[new.conn].listeners =
                                    Append(conns[new.conn].listeners,
                                           WaitListener(Len(waits')))
      ]_vars

\* on one dead connection: a wait that failed without looking at its
\* predicate, which was true, and a wait that resolved on its predicate
C19Witness ==
    \E i, j \in DOMAIN waits :
        /\ waits[i].conn = waits[j].conn
        /\ waits[i].deadAtStart /\ ~waits[i].allow
        /\ waits[i].atStart = "true" /\ ~waits[i].evaluated
        /\ waits[i].outcome = "failed"
        /\ waits[j].deadAtStart /\ waits[j].allow
        /\ waits[j].atStart = "true" /\ waits[j].evaluated
        /\ waits[j].outcome = "resolved"

\* C8, as stated: a wait whose predicate is true when it starts is resolved
\* by the starting call, which applies no message and leaves every listener
\* list as it was
WaitTrueResolvesAtOnce ==
    [][Len(waits') = Len(waits) + 1
        => (waits'[Len(waits')].atStart = "true"
            => /\ waits'[Len(waits')].outcome = "resolved"
               /\ ~waits'[Len(waits')].listener
               /\ globalRevisionId' = globalRevisionId
               /\ nextTick' = nextTick
               /\ \A c \in DOMAIN conns : conns'[c].listeners = conns[c].listeners)
      ]_vars

\* C8, amended: the same for a wait started on a connection that is not dead,
\* or started with allowDisconnectionState true
WaitTrueResolvesAtOnceUnlessDead ==
    [][Len(waits') = Len(waits) + 1
        => ((/\ waits'[Len(waits')].atStart = "true"
             /\ (~waits'[Len(waits')].deadAtStart \/ waits'[Len(waits')].allow))
            => /\ waits'[Len(waits')].outcome = "resolved"
               /\ ~waits'[Len(waits')].listener
               /\ globalRevisionId' = globalRevisionId
               /\ nextTick' = nextTick
               /\ \A c \in DOMAIN conns : conns'[c].listeners = conns[c].listeners)
      ]_vars

C8Witness ==
    \E id \in DOMAIN waits :
        /\ waits[id].owner = "user"
        /\ waits[id].atStart = "true"
        /\ waits[id].outcome = "resolved"
        /\ conns[waits[id].conn].connected
        /\ Len(conns[waits[id].conn].listeners) = 2

\* C9: a wait makes at most one of the calls done, error and cancel; once
\* settled its outcome never changes, whatever is dispatched or cancelled
\* later; cancelling a pending wait removes its listener and settles it as
\* cancelled
WaitSettlesOnce ==
    /\ [](\A id \in DOMAIN waits :
            /\ waits[id].calls <= 1
            /\ (waits[id].calls = 0 <=> waits[id].outcome = "pending")
            /\ waits[id].outcome = "cancelled" => ~Listening(id))
    /\ [][\A id \in DOMAIN waits :
            /\ waits[id].outcome # "pending"
                => (waits'[id].outcome = waits[id].outcome
                    /\ waits'[id].error = waits[id].error)
            /\ (UserCancel(id) /\ waits[id].outcome = "pending")
                => (waits'[id].outcome = "cancelled"
                    /\ WaitListener(id) \notin Range(conns'[waits[id].conn].listeners))
         ]_vars

\* a cancelled wait and a resolved one, with a dispatch pending
C9Witness ==
    /\ \E id \in DOMAIN waits :
          waits[id].outcome = "cancelled" /\ waits[id].atStart = "false"
    /\ \E id \in DOMAIN waits :
          /\ waits[id].owner = "user"
          /\ waits[id].outcome = "resolved"
          /\ waits[id].atStart = "false"
    /\ nextTick # <<>>

\* C10: a listener that stays registered (the one of the lifecycle) has been
\* invoked once per dispatch requested, that is once per message applied,
\* whenever no dispatch is pending
ListenerInvokedPerMutation == nextTick = <<>> => hist.owed = 0

-----------------------------------------------------------------------------
(* Properties of the transport, under SpecQueue *)

IsPrefix(s, t) == Len(s) <= Len(t) /\ SubSeq(t, 1, Len(s)) = s

\* C17: nothing is written on a connection that is not connected; the
\* connect event writes the discovery request and then the queue in its
\* order; a connected connection has an empty queue after every step; what
\* is written is only ever extended, by the commands queued in their order,
\* and a step that is not the connect event nor the close only adds commands
\* behind those written or queued
QueueFlushedInOrder ==
    /\ [](\A c \in DOMAIN conns :
            /\ conns[c].connected => conns[c].queue = <<>>
            /\ conns[c].socket = "opening" => conns[c].written = <<>>)
    /\ [][\A c \in DOMAIN conns :
            /\ (~conns[c].connected /\ ~conns'[c].connected)
                  => conns'[c].written = conns[c].written
            /\ (~conns[c].connected /\ conns'[c].connected)
                  => /\ conns'[c].written =
                          conns[c].written \o <<GetProperties>> \o conns[c].queue
                     /\ conns'[c].queue = <<>>
            /\ IsPrefix(conns[c].written, conns'[c].written)
            /\ (conns[c].connected = conns'[c].connected /\ conns'[c].socket = conns[c].socket)
                  => IsPrefix(Outgoing(conns, c), Outgoing(conns', c))
            /\ (conns[c].socket # "closed" /\ conns'[c].socket = "closed")
                  => (conns'[c].written = conns[c].written /\ conns'[c].queue = <<>>)
         ]_vars

\* the connect event has written the discovery request and two commands
\* queued before it, and a command was written after it
C17Witness ==
    \E c \in DOMAIN conns :
        /\ hist.flushed = 2
        /\ c = Len(conns)
        /\ conns[c].connected
        /\ Len(conns[c].written) = 4
        /\ conns[c].written[2] # conns[c].written[3]

\* what a step has written on connection c
Written(c) ==
    IF c \in DOMAIN conns
    THEN SubSeq(conns'[c].written, Len(conns[c].written) + 1, Len(conns'[c].written))
    ELSE conns'[c].written

\* C37: a connection that is dead stays dead and not connected, and nothing
\* more is written on its socket; the close event empties its queue and
\* writes nothing; a command queued on a dead connection stays in its queue,
\* the step that queues it writes nothing on any socket, and what a step
\* writes on a connection is the discovery request at the connect event,
\* then the queue of that same connection, then at most the one command the
\* step queues on it, so nothing queued on a dead connection reaches the
\* socket of a later one; a new connection starts with an empty queue
DeathIsTerminal ==
    /\ [](\A c \in DOMAIN conns : conns[c].dead => ~conns[c].connected)
    /\ [][\A c \in DOMAIN conns' :
            IF c \notin DOMAIN conns
            THEN conns'[c].queue = <<>> /\ conns'[c].written = <<>> /\ ~conns'[c].dead
            ELSE /\ conns[c].dead
                      => /\ conns'[c].dead
                         /\ ~conns'[c].connected
                         /\ conns'[c].written = conns[c].written
                         /\ IsPrefix(conns[c].queue, conns'[c].queue)
                         /\ conns'[c].queue # conns[c].queue
                               => \A d \in DOMAIN conns' : Written(d) = <<>>
                 /\ (~conns[c].dead /\ conns'[c].dead)
                      => /\ conns'[c].queue = <<>>
                         /\ ~conns'[c].connected
                         /\ conns'[c].written = conns[c].written
                 /\ IsPrefix(conns[c].written, conns'[c].written)
                 /\ Written(c) # <<>>
                      => /\ conns'[c].connected
                         /\ IF conns[c].connected
                            THEN Len(Written(c)) = 1 /\ conns[c].queue = <<>>
                            ELSE Written(c) = <<GetProperties>> \o conns[c].queue
         ]_vars

\* the first connection was closed before its connect event; a command
\* queued on it afterwards is still in its queue while the second connection
\* is connected and has written the discovery request only
C37Witness ==
    /\ Len(conns) = 2
    /\ conns[1].dead
    /\ conns[1].written = <<>>
    /\ conns[1].queue # <<>>
    /\ conns[2].connected
    /\ conns[2].written = <<GetProperties>>

-----------------------------------------------------------------------------
(* Properties of the listener dispatch, under SpecDispatch *)

Count(f, s) == Cardinality({i \in DOMAIN s : s[i] = f})

\* C11: in the dispatch pass last run, every listener registered when the
\* pass started was invoked exactly once, unless it was removed before its
\* turn by a listener of the pass, and then it was not invoked
InvokedOncePerPass ==
    \A f \in Range(hist.pass.atStart) :
        Count(f, hist.pass.invoked) = IF f \in hist.pass.removed THEN 0 ELSE 1

\* C38: a dispatch pass invokes every listener of its snapshot that is
\* still registered when the pass is over, also when a listener of the pass
\* throws
ThrowDoesNotStopPass ==
    [][(nextTick # <<>> /\ nextTick' = Tail(nextTick))
        => \A l \in Range(conns[Head(nextTick)].checkingListeners) :
              l \in Range(conns'[Head(nextTick)].listeners)
                  => l \in Range(hist'.pass.invoked)
      ]_vars

-----------------------------------------------------------------------------
(* Properties of the command sequencer, under SpecPulse *)

Exited(i) == ops[i].result # "running"

\* C5, as stated: however pulseParam exits after setting the property "On",
\* the last command it issued for the property is "Off"
PulseEndsWithOff ==
    \A i \in DOMAIN ops :
        (ops[i].kind = "pulse" /\ Exited(i) /\ ops[i].issued # <<>>)
            => Last(ops[i].issued) = "Off"

\* C5, amended: when the busy wait ends by itself pulseParam exits with the
\* "Property stopped" error having issued "On" only; when the busy wait fails
\* or is cancelled and the vector is still in the tree at the cleanup, the
\* last command it issued is "Off"
PulseEndsWithOffUnlessStopped ==
    \A i \in DOMAIN ops :
        (ops[i].kind = "pulse" /\ Exited(i) /\ ops[i].issued # <<>>)
            => /\ ops[i].error = "stopped" => ops[i].issued = <<"On">>
               /\ (ops[i].error # "stopped" /\ ops[i].vecAtCleanup)
                     => ops[i].issued = <<"On", "Off">>

\* pulseParam has exited by cancellation after its "Off"
C5Witness ==
    \E i \in DOMAIN ops :
        /\ ops[i].kind = "pulse"
        /\ Exited(i)
        /\ ops[i].error = "cancelled"
        /\ ops[i].issued = <<"On", "Off">>

-----------------------------------------------------------------------------
(* Properties of setParam, activate and updateVector, under SpecSet *)

\* C14: a setParam without force that finds every entry of its value set
\* that is not null equal to the child's current value returns the empty
\* list having issued no command; the step of the comparison leaves the tree
\* (the state of the vector included), the queues and what was written as
\* they were, and starts no wait
SetParamEqualValuesIsNoop ==
    /\ [](\A i \in DOMAIN ops :
            (ops[i].kind = "set" /\ ~ops[i].force /\ ops[i].compared = "same")
                => /\ ops[i].result = "resolved"
                   /\ ops[i].todo = <<>>
                   /\ ops[i].issued = <<>>)
    /\ [][\A i \in DOMAIN ops :
            (/\ ops[i].kind = "set"
             /\ ~ops[i].force
             /\ ops[i].compared = "no"
             /\ ops'[i].compared = "same")
                => /\ deviceTree' = deviceTree
                   /\ conns' = conns
                   /\ waits' = waits
         ]_vars

\* such a call has returned while another child of the vector differs from
\* the null entry of the value set
C14Witness ==
    \E i \in DOMAIN ops :
        /\ ops[i].kind = "set"
        /\ ~ops[i].force
        /\ ops[i].compared = "same"
        /\ ops[i].value = [P |-> "On", Q |-> "null"]
        /\ ops[i].result = "resolved"
        /\ getState(deviceTree, "CCD", "V") = "Ok"

\* C15: an activate called on a connected device while the vector is Busy
\* with the property "On" issues no command and registers no listener (its
\* only wait, the one of waitForVectors, resolves in the call), and it has
\* returned successfully before anything else happens
ActivateBusyOnReturnsAtOnce ==
    /\ [](\A i \in DOMAIN ops :
            (ops[i].kind = "activate" /\ ops[i].atCall = "busyOn")
                => /\ ops[i].issued = <<>>
                   /\ ops[i].result # "failed"
                   /\ waits[ops[i].wait].outcome = "resolved"
                   /\ ~Listening(ops[i].wait)
                   /\ Quiescent => ops[i].result = "resolved")
    /\ [][\A i \in DOMAIN ops' :
            (/\ ops'[i].kind = "activate"
             /\ ops'[i].atCall = "busyOn"
             /\ (i \notin DOMAIN ops \/ ops[i].result = "running"))
                => (conns' = conns /\ deviceTree' = deviceTree)
         ]_vars

C15Witness ==
    \E i \in DOMAIN ops :
        /\ ops[i].kind = "activate"
        /\ ops[i].atCall = "busyOn"
        /\ ops[i].result = "resolved"
        /\ Len(waits) = ops[i].wait
        /\ getState(deviceTree, "CCD", "V") = "Busy"

\* C16: a call that runs Vector.setValues on a vector of the tree (here
\* updateVector, setParam or activate issuing a command) adds to the
\* connection exactly one command, for that device and vector, with the
\* listed properties in the order given, and leaves the vector Busy; an
\* updateVector on a vector that is not in the tree fails with NotFound and
\* changes neither the connections nor the tree
SetValuesQueuesOneCommand ==
    [][\A i \in DOMAIN ops' :
        /\ (/\ ops'[i].kind \in {"update", "set", "activate"}
            /\ ops'[i].issued # (IF i \in DOMAIN ops THEN ops[i].issued ELSE <<>>))
              => LET c == ops'[i].conn
                     cmd == Last(ops'[i].issued)
                 IN  /\ Len(ops'[i].issued) =
                           1 + (IF i \in DOMAIN ops THEN Len(ops[i].issued) ELSE 0)
                     /\ exists(deviceTree, ops'[i].device, cmd.vector)
                     /\ Outgoing(conns', c) = Append(Outgoing(conns, c),
                           [device |-> ops'[i].device, name |-> cmd.vector,
                            type |-> deviceTree[ops'[i].device][cmd.vector].type,
                            items |-> cmd.items])
                     /\ \A d \in DOMAIN conns : d # c => conns'[d] = conns[d]
                     /\ getState(deviceTree', ops'[i].device, cmd.vector) = "Busy"
        /\ (/\ i \notin DOMAIN ops
            /\ ops'[i].kind = "update"
            /\ ops'[i].conn # 0
            /\ ~exists(deviceTree, ops'[i].device, ops'[i].vector))
              => /\ ops'[i].result = "failed"
                 /\ ops'[i].error = "notFound"
                 /\ conns' = conns
                 /\ deviceTree' = deviceTree
      ]_vars

\* updateVector has issued two properties in the caller's order, not sorted,
\* on a connected socket
C16Witness ==
    \E i \in DOMAIN ops :
        /\ ops[i].kind = "update"
        /\ ops[i].result = "resolved"
        /\ Len(ops[i].issued[1].items) = 2
        /\ Last(conns[ops[i].conn].written).items = ops[i].issued[1].items
        /\ getState(deviceTree, "CCD", "V") = "Busy"

\* the keys of the value set that setParam writes on the given tree
WrittenKeys(tree, device, vector, value, force) ==
    {key \in DOMAIN value :
        /\ value[key] # "null"
        /\ (force \/ getPropertyValueIfExists(tree, device, vector, key) # value[key])}

\* C29: the command a setParam issues lists exactly the keys of its value
\* set whose value is not null and, unless force is set, differs from the
\* value of the child in the tree at that moment, each once with the value
\* of the set, in the order of the sorted key names; it is the command
\* added to the connection, and the list the call returns
SetParamWritesChangedKeys ==
    /\ [][\A i \in DOMAIN ops :
            (ops[i].kind = "set" /\ ops'[i].issued # ops[i].issued)
                => LET o == ops[i]
                       items == Last(ops'[i].issued).items
                       keys == WrittenKeys(deviceTree, o.device, o.vector,
                                           o.value, o.force)
                   IN  /\ ops'[i].issued = <<[vector |-> o.vector, items |-> items]>>
                       /\ {items[n].name : n \in DOMAIN items} = keys
                       /\ Len(items) = Cardinality(keys)
                       /\ \A n \in DOMAIN items :
                             items[n].value = o.value[items[n].name]
                       /\ \A n, m \in DOMAIN items :
                             n < m => IndexOf(KeyOrder, items[n].name)
                                        < IndexOf(KeyOrder, items[m].name)
                       /\ Last(Outgoing(conns', o.conn)).items = items
                       /\ Len(Outgoing(conns', o.conn)) = Len(Outgoing(conns, o.conn)) + 1
                       /\ ops'[i].todo = items
         ]_vars
    /\ [](\A i \in DOMAIN ops :
            (ops[i].kind = "set" /\ ops[i].result = "resolved" /\ ops[i].issued # <<>>)
                => ops[i].todo = ops[i].issued[1].items)

\* a setParam without force has returned after writing the one key of its
\* two whose value differed
C29Witness ==
    \E i \in DOMAIN ops :
        /\ ops[i].kind = "set"
        /\ ~ops[i].force
        /\ ops[i].value = [Q |-> "1", P |-> "On"]
        /\ ops[i].result = "resolved"
        /\ ops[i].todo = <<[name |-> "P", value |-> "On"]>>
        /\ ops[i].issued = <<[vector |-> "V", items |-> ops[i].todo]>>

\* call i resumes from the end of its idle wait, or from waitForVectors
\* when the idle wait is skipped
AfterIdleWait(i) ==
    /\ ops[i].result = "running"
    /\ waits[ops[i].wait].outcome = "resolved"
    /\ \/ ops[i].pc = "awaitIdle"
       \/ ops[i].pc = "awaitVectors" /\ ops[i].kind = "set" /\ ops[i].nowait

\* call i issues its command in this step: the command of setParam, the
\* "On" of pulseParam
IssuesCommand(i) ==
    /\ ops'[i].issued # ops[i].issued
    /\ ops[i].kind = "pulse" => Last(ops'[i].issued) = "On"

\* C30: setParam issues its command, and pulseParam its "On", only in the
\* step that follows the idle wait (or waitForVectors with nowait) and only
\* when the vector is not Busy in the tree at that moment; a call that finds
\* the vector Busy there fails with 'Device is busy', and adds no command
\* and changes nothing in the tree; so no call issues while the vector still
\* carries the Busy mark another running setParam has set
NeverIssuedWhileBusy ==
    [][\A i \in DOMAIN ops :
        ops[i].kind \in {"set", "pulse"} =>
            /\ IssuesCommand(i)
                  => /\ AfterIdleWait(i)
                     /\ getState(deviceTree, ops[i].device, ops[i].vector) # "Busy"
                     /\ \A j \in DOMAIN ops :
                           (/\ j # i
                            /\ ops[j].kind = "set"
                            /\ ops[j].vector = ops[i].vector
                            /\ ops[j].pc = "awaitDone"
                            /\ ops[j].result = "running")
                              => getState(deviceTree, ops[j].device, ops[j].vector) # "Busy"
            /\ (/\ AfterIdleWait(i)
                /\ ops'[i] # ops[i]
                /\ ~getVecThrows(deviceTree, ops[i].device, ops[i].vector)
                /\ getState(deviceTree, ops[i].device, ops[i].vector) = "Busy")
                  => /\ ops'[i].result = "failed"
                     /\ ops'[i].error = "busy"
                     /\ ops'[i].issued = ops[i].issued
                     /\ conns' = conns
                     /\ deviceTree' = deviceTree
      ]_vars

\* two setParam calls on one vector: the second, made with nowait while the
\* mark of the first is in place, has failed without a command
C30Witness ==
    /\ Len(ops) = 2
    /\ ops[1].kind = "set" /\ ops[2].kind = "set"
    /\ ops[1].pc = "awaitDone" /\ ops[1].result = "running"
    /\ Len(ops[1].issued) = 1
    /\ ops[2].nowait
    /\ ops[2].result = "failed" /\ ops[2].error = "busy"
    /\ ops[2].issued = <<>>
    /\ getState(deviceTree, "CCD", "V") = "Busy"
    /\ Len(Outgoing(conns, connection)) = 2

\* C31: every wait listener in a connection's listener set (and in its
\* dispatch snapshot) is the listener of a wait of that connection that has
\* not settled; a wait that has settled, resolved, failed or cancelled, has
\* no listener left, so a call that has ended leaves none of its waits
\* listening
NoListenerLeftBehind ==
    /\ \A c \in DOMAIN conns :
          \A l \in Range(conns[c].listeners) \cup Range(conns[c].checkingListeners) :
              l.kind = "wait"
                => /\ l.id \in DOMAIN waits
                   /\ waits[l.id].conn = c
                   /\ waits[l.id].outcome = "pending"
    /\ \A id \in DOMAIN waits :
          waits[id].outcome # "pending" => ~Listening(id)
    /\ (\A i \in DOMAIN ops : Exited(i))
          => \A id \in DOMAIN waits : waits[id].owner = "op" => ~Listening(id)

\* a setParam was cancelled while its wait had a listener registered, and
\* has ended
C31Witness ==
    \E i \in DOMAIN ops :
        /\ ops[i].kind = "set"
        /\ ops[i].result = "failed"
        /\ ops[i].error = "cancelled"
        /\ ops[i].pc = "done"
        /\ waits[ops[i].wait].outcome = "cancelled"
        /\ waits[ops[i].wait].atStart = "false"
        /\ ~waits[ops[i].wait].deadAtStart
        /\ ~Listening(ops[i].wait)

\* C32: the onCancelAbort callback of a setParam is invoked at most once;
\* it is invoked by the cancellation of the token while the call is parked
\* at the wait that follows its command, and by no other step, so not
\* before the command and not after the call has ended, however it ended;
\* a call with the callback whose token is cancelled during that wait ends
\* with the cancellation failure, whatever the state of the vector then
AbortCalledOnlyWhileBusyWait ==
    /\ [](\A i \in DOMAIN ops : ops[i].kind = "set" => ops[i].aborts <= 1)
    /\ [][\A i \in DOMAIN ops :
            ops[i].kind = "set" =>
                /\ ops'[i].aborts # ops[i].aborts
                      <=> /\ ops[i].cancelator
                          /\ ~ops[i].cancelled /\ ops'[i].cancelled
                          /\ ops[i].result = "running"
                          /\ ops[i].pc = "awaitDone"
                          /\ ops[i].issued # <<>>
                /\ (/\ ops[i].cancelator
                    /\ ops[i].cancelled
                    /\ ops[i].result = "running"
                    /\ ops[i].pc = "awaitDone"
                    /\ ops'[i] # ops[i])
                      => /\ ops'[i].result = "failed"
                         /\ ops'[i].error = "cancelled"
         ]_vars

\* a setParam with the callback has returned after its command, and its
\* token was cancelled afterwards without the callback being invoked
C32Witness ==
    \E i \in DOMAIN ops :
        /\ ops[i].kind = "set"
        /\ ops[i].cancelator
        /\ ops[i].result = "resolved"
        /\ ops[i].issued # <<>>
        /\ ops[i].cancelled
        /\ ops[i].aborts = 0

\* C33: a setParam parked at the wait that follows its command returns its
\* list as soon as that wait has resolved, that is at the first dispatch
\* that finds the vector not Busy, whichever message made it so and whatever
\* values the vector holds then: its success does not tell that the command
\* was acknowledged
SetParamReturnsWhenNotBusy ==
    [][\A i \in DOMAIN ops :
        (/\ ops[i].kind = "set"
         /\ ops[i].result = "running"
         /\ ops[i].pc = "awaitDone"
         /\ ~ops[i].cancelled
         /\ waits[ops[i].wait].outcome = "resolved"
         /\ ops'[i] # ops[i])
            => /\ ops'[i].result = "resolved"
               /\ ops'[i].todo = ops[i].todo
               /\ deviceTree' = deviceTree
      ]_vars

\* a setParam that wrote P "On" has returned successfully after the vector
\* was defined again, Idle with P "Off": the message that cleared Busy was a
\* definition, not an update answering the command, and P still reads "Off"
C33Witness ==
    \E i \in DOMAIN ops :
        /\ ops[i].kind = "set"
        /\ ops[i].result = "resolved"
        /\ ops[i].issued = <<[vector |-> "V", items |-> <<[name |-> "P", value |-> "On"]>>]>>
        /\ globalRevisionId = 4
        /\ getState(deviceTree, "CCD", "V") = "Idle"
        /\ getPropertyValueIfExists(deviceTree, "CCD", "V", "P") = "Off"

\* call i, an activate, resumes after waitForVectors on a connected device
\* whose vector exists and is not Busy with the property "On"
ActivateProceeds(i) ==
    /\ ops[i].kind = "activate"
    /\ ops[i].result = "running"
    /\ ops[i].pc = "awaitVectors"
    /\ waits[ops[i].wait].outcome = "resolved"
    /\ ops'[i] # ops[i]
    /\ ~getVecThrows(deviceTree, ops[i].device, ops[i].vector)
    /\ exists(deviceTree, ops[i].device, ops[i].vector)
    /\ has(deviceTree[ops[i].device][ops[i].vector].childs, ops[i].prop)
    /\ ~(/\ getState(deviceTree, ops[i].device, ops[i].vector) = "Busy"
         /\ getPropertyValue(deviceTree, ops[i].device, ops[i].vector, ops[i].prop) = "On")

\* the listener of the wait of call i is invoked by the dispatch of this step
\* while the wait is pending
ListenerDispatched(i) ==
    /\ ops[i].result = "running"
    /\ ops[i].pc = "awaitOn"
    /\ waits[ops[i].wait].outcome = "pending"
    /\ nextTick # <<>> /\ nextTick' = Tail(nextTick)
    /\ WaitListener(ops[i].wait) \in Range(hist'.pass.invoked)

\* what activate does apart from the moment it resolves: one command, the
\* property "On", issued whatever the state of the vector; the wait resolves
\* at a dispatch exactly when the property reads "On" then, Busy or not; the
\* call returns with the property reading "On"
ActivateIssuesAndWaits ==
    [][\A i \in DOMAIN ops :
        /\ ActivateProceeds(i)
              => /\ ops'[i].issued =
                       <<[vector |-> ops[i].vector,
                          items |-> <<[name |-> ops[i].prop, value |-> "On"]>>]>>
                 /\ Len(Outgoing(conns', ops[i].conn)) = Len(Outgoing(conns, ops[i].conn)) + 1
                 /\ Last(Outgoing(conns', ops[i].conn)).items = ops'[i].issued[1].items
        /\ (ops[i].kind = "activate" /\ ListenerDispatched(i))
              => LET v == IF exists(deviceTree, ops[i].device, ops[i].vector)
                               /\ ~getVecThrows(deviceTree, ops[i].device, ops[i].vector)
                          THEN getPropertyValue(deviceTree, ops[i].device,
                                                ops[i].vector, ops[i].prop)
                          ELSE "throw"
                 IN  /\ v = "On" => waits'[ops[i].wait].outcome = "resolved"
                     /\ v \notin {"On", "throw"} => waits'[ops[i].wait].outcome = "pending"
        /\ (/\ ops[i].kind = "activate"
            /\ ops[i].pc = "awaitOn"
            /\ ops[i].result = "running"
            /\ ops'[i].result # "running")
              => /\ ops'[i].issued = ops[i].issued
                 /\ conns' = conns
                 /\ ops'[i].result = "resolved"
                       <=> waits[ops[i].wait].outcome = "resolved"
                 /\ ops'[i].result = "resolved"
                       => getPropertyValue(deviceTree, ops[i].device,
                                           ops[i].vector, ops[i].prop) = "On"
      ]_vars

PulseFailures ==
    {"noConnection", "notConnected", "disconnected", "missingVector", "notFound",
     "busy", "stopped", "cancelled"}

\* C35: a pulseParam never returns normally: when it has ended it has failed,
\* by one of the failures above, the anomaly when its busy wait resolved; and
\* a pulseParam that finds the vector Busy when its idle wait has ended fails
\* with 'Device is busy' having issued no command
PulseNeverSucceeds ==
    /\ [](\A i \in DOMAIN ops :
            ops[i].kind = "pulse"
                => /\ ops[i].result # "resolved"
                   /\ Exited(i) => ops[i].error \in PulseFailures
                   /\ ops[i].selfStopped => (Exited(i) /\ ops[i].error = "stopped"))
    /\ [][\A i \in DOMAIN ops :
            (/\ ops[i].kind = "pulse"
             /\ ops[i].result = "running"
             /\ ops[i].pc = "awaitIdle"
             /\ waits[ops[i].wait].outcome = "resolved"
             /\ ops'[i] # ops[i]
             /\ ~getVecThrows(deviceTree, ops[i].device, ops[i].vector)
             /\ getState(deviceTree, ops[i].device, ops[i].vector) = "Busy")
                => /\ ops'[i].result = "failed"
                   /\ ops'[i].error = "busy"
                   /\ ops'[i].issued = <<>>
                   /\ conns' = conns
                   /\ deviceTree' = deviceTree
         ]_vars

\* a pulseParam that waited for the vector to be idle has failed with
\* 'Device is busy' and no command, another call having marked the vector
\* Busy in between
C35Witness ==
    \E i \in DOMAIN ops :
        /\ ops[i].kind = "pulse"
        /\ ops[i].result = "failed"
        /\ ops[i].error = "busy"
        /\ ops[i].issued = <<>>
        /\ waits[ops[i].wait].pred.kind = "notBusy"
        /\ waits[ops[i].wait].atStart = "false"
        /\ waits[ops[i].wait].outcome = "resolved"

-----------------------------------------------------------------------------
(* Properties of connectDevice, under SpecConnect *)

\* the first command of call i sets CONNECT "On", and since then the server
\* has updated CONNECTION to state Ok with CONNECT "On" on the connection of
\* the call
ConnectionAcknowledged(i) ==
    /\ ops[i].kind = "connect"
    /\ ops[i].issued # <<>>
    /\ ~conns[ops[i].conn].dead
    /\ ops[i].issued[1] = [vector |-> "CONNECTION",
                           items |-> <<[name |-> "CONNECT", value |-> "On"]>>]
    /\ getState(deviceTree, ops[i].device, "CONNECTION") = "Ok"
    /\ getPropertyValue(deviceTree, ops[i].device, "CONNECTION", "CONNECT") = "On"
    /\ Quiescent

\* C13, as stated: once the server has answered the CONNECT "On" command of
\* connectDevice by an update of CONNECTION with state Ok and CONNECT "On",
\* and the dispatch is done, connectDevice (neither cancelled nor failed
\* meanwhile) has resolved and checkDeviceConnected succeeds
ConnectResolvesOnConnectionOk ==
    \A i \in DOMAIN ops :
        (/\ ConnectionAcknowledged(i)
         /\ ~ops[i].cancelled
         /\ ~(ops[i].result = "failed" /\ Len(ops[i].issued) = 1
              /\ ops[i].error # "missingVector"))
            => /\ ops[i].result = "resolved"
               /\ checkDeviceConnected(World, ops[i].device)

\* C13, amended: the command connectDevice issues first marks CONNECTION
\* Busy; once the server has answered it as above the first setParam has
\* ended, checkDeviceConnected succeeds and connectDevice has gone on to set
\* CONFIG_LOAD "On" on CONFIG_PROCESS; it resolves only from that second
\* setParam (or at once when CONNECT was "On" at the call), with
\* CONFIG_PROCESS in the tree and not Busy and the device connected, and it
\* fails with the missing vector error when CONFIG_PROCESS does not come
ConnectResolvesAfterConfigLoad ==
    /\ [](\A i \in DOMAIN ops : ops[i].kind = "connect" =>
            /\ (/\ ops[i].issued # <<>>
                /\ ops[i].issued[1].vector = "CONNECTION"
                /\ Len(ops[i].issued) = 1
                /\ ops[i].pc = "awaitDone"
                /\ waits[ops[i].wait].outcome = "pending"
                /\ ~conns[ops[i].conn].dead
                /\ nextTick = <<>>)
                  => getState(deviceTree, ops[i].device, "CONNECTION") \in {"Busy", "throw"}
            /\ (ConnectionAcknowledged(i) /\ ops[i].result = "running")
                  => (ops[i].stage = 2 /\ checkDeviceConnected(World, ops[i].device))
            /\ ops[i].result = "resolved"
                  => (ops[i].stage = 2 \/ ops[i].issued = <<>>))
    /\ [][\A i \in DOMAIN ops :
            /\ (/\ ops[i].kind = "connect"
                /\ ops[i].result = "running"
                /\ ~conns[ops[i].conn].dead
                /\ ops'[i].error = "missingVector")
                  => ~exists(deviceTree, ops[i].device, ops[i].vector)
            /\ (/\ ops[i].kind = "connect"
                /\ ops[i].stage = 2
                /\ ops[i].result = "running"
                /\ ops'[i].result = "resolved")
                  => /\ getState(deviceTree', ops[i].device, "CONFIG_PROCESS")
                          \notin {"Busy", "throw"}
                     /\ getPropertyValueIfExists(deviceTree', ops[i].device,
                                                 "CONNECTION", "CONNECT") = "On"
         ]_vars

\* connectDevice has resolved after both commands
C13Witness ==
    \E i \in DOMAIN ops :
        /\ ops[i].kind = "connect"
        /\ ops[i].result = "resolved"
        /\ Len(ops[i].issued) = 2
        /\ ops[i].issued[2] = [vector |-> "CONFIG_PROCESS",
                               items |-> <<[name |-> "CONFIG_LOAD", value |-> "On"]>>]
        /\ ConnectionAcknowledged(i)

-----------------------------------------------------------------------------
(* Properties of the notification log, under SpecLog *)

\* C6: the uid of a notification is greater, in string order, than the uid of
\* the notification added before it
UidsIncrease ==
    hist.prevUid # <<>> => StrLess(hist.prevUid, hist.lastUid)

\* C36: each call of nextMessageUid uses as timestamp the greater of the
\* clock reading and the timestamp of the call before, so the timestamp used
\* never decreases, also when the reading goes backward; the counter is 0
\* exactly when the timestamp used is above the one of the call before, and
\* one more than the counter of that call otherwise; the pair (timestamp,
\* counter) increases lexicographically
StampAndSerialIncrease ==
    [][hist'.added # hist.added
        => /\ lastMessageStamp' =
                 (IF hist'.now > lastMessageStamp THEN hist'.now ELSE lastMessageStamp)
           /\ lastMessageStamp' >= lastMessageStamp
           /\ lastMessageSerial' = 0 <=> lastMessageStamp' > lastMessageStamp
           /\ lastMessageStamp' = lastMessageStamp
                 => lastMessageSerial' = lastMessageSerial + 1
           /\ \/ lastMessageStamp' > lastMessageStamp
              \/ /\ lastMessageStamp' = lastMessageStamp
                 /\ lastMessageSerial' > lastMessageSerial
      ]_vars

\* the clock read 0 after a call that used the timestamp 1: the call used 1
\* again and went on counting
C36Witness ==
    /\ hist.now = 0
    /\ lastMessageStamp = 1
    /\ lastMessageSerial = 2

-----------------------------------------------------------------------------
(* Properties of the preferred-device selector, under SpecSelector *)

Available(d) == d # "null" /\ d \in Range(selector.available)

\* C40: an update of a selector that has a status leaves a current that is
\* null or available; replaces an unavailable current by prefered when prefered
\* is available and by null otherwise; sets prefered to an available current
\* that differs from it; leaves prefered alone when current is null; and an
\* update that follows another calls set zero times
UpdateSelects ==
    [][selector'.updates # selector.updates /\ selector.present
        => /\ selector'.available = selector.available
           /\ selector'.current = "null" \/ selector'.current \in Range(selector.available)
           /\ selector.current # "null" /\ ~Available(selector.current)
                 => selector'.current =
                       (IF Available(selector.prefered) THEN selector.prefered ELSE "null")
           /\ Available(selector.current) /\ selector.current # selector.prefered
                 => selector'.prefered = selector.current
           /\ selector.current = "null" => selector'.prefered = selector.prefered
           /\ selector.updates >= 1 => selector'.sets = 0
      ]_vars

\* the first update replaced the current device by the prefered one through
\* one call of set, and the second update called set zero times
C40Witness ==
    /\ selector.present
    /\ selector.updates = 2
    /\ selector.total = 1
    /\ selector.sets = 0
    /\ selector.current = "b"
    /\ selector.prefered = "b"
    /\ selector.available = <<"a", "b">>

\* C7: the log holds at most 100 entries, and once more than 100 notifications
\* were added it holds the 100 added last
LogKeepsNewest ==
    /\ Cardinality(DOMAIN byUid) <= maxMessages
    /\ hist.added > maxMessages
          => {byUid[k] : k \in DOMAIN byUid} = (hist.added - maxMessages + 1)..hist.added

====
